---- MODULE Spec2Model ----
\* Verification model of the pre_funnel lead-discovery backend:
\* the credential store and usage tracker of user_auth.py and the tiered
\* scouts of agents/*.py.
EXTENDS Integers, Sequences, FiniteSets, TLC

\* --------------------------------------------------------------------------
\* Bounds of the model
\* --------------------------------------------------------------------------
MaxNow == 4             \* the clock runs over ticks 0..MaxNow
TicksPerSecond == 2     \* resolution of datetime.now() against CURRENT_TIMESTAMP
TicksPerDay == 2        \* ticks after which date('now') changes
MaxTokenRows == 2       \* rows the social_tokens table may grow to
MaxUsageRows == 3       \* rows the api_usage table may grow to
MaxWindow == 2          \* largest `days` argument of get_user_usage
MaxHits == 2            \* most profiles one provider answer carries

\* --------------------------------------------------------------------------
\* Values
\* --------------------------------------------------------------------------
None == "None"
NoExpiry == -1          \* expires_at = None (SQL NULL)
NoExpiresIn == -1       \* token_data without the key 'expires_in'

Users == {"u1"}
Platforms == {"twitter", "linkedin"}
Endpoints == {"search", "profile_search", "user_search"}
Threads == {1, 2}

\* token_data payloads handed to store_social_token: OAuth payloads with an
\* expires_in (in seconds), and the manual profile connection payload of app.py
\* (no access_token, no refresh_token, no expires_in).
TokenPayloads ==
    { [access_token |-> "A", refresh_token |-> "R", expires_in |-> 0],
      [access_token |-> "B", refresh_token |-> "R", expires_in |-> 1],
      [access_token |-> None, refresh_token |-> None, expires_in |-> NoExpiresIn] }

VARIABLES
    now,            \* wall clock, in ticks
    social_tokens,  \* table social_tokens, rows in rowid order
    api_usage,      \* table api_usage, rows in rowid order
    gets,           \* per thread: the get_user_token call it is executing
    tracked,        \* history: number of track_api_usage calls per key and day
    usage_reply,    \* the last answer of get_user_usage, with its arguments
    env,            \* the deployment: which API keys are set, which modules load
    call,           \* the scout call in progress
    rank,           \* one validate_and_rank call: its argument and its result
    req,            \* the lead_discovery request in progress
    users,          \* table users, rows in rowid order
    user_reply,     \* the last answer of /api/user/create, until it is sent
    fetch,          \* the provider call in progress: one retry or polling loop
    tracks          \* per thread: the track_api_usage call it is executing

vars == <<now, social_tokens, api_usage, gets, tracked, usage_reply, env, call,
         rank, req, users, user_reply, fetch, tracks>>

\* --------------------------------------------------------------------------
\* Clock
\* --------------------------------------------------------------------------
\* CURRENT_TIMESTAMP has a resolution of one second
CurrentTimestamp(t) == t \div TicksPerSecond

\* date('now')
DateNow(t) == t \div TicksPerDay

Days == 0..(MaxNow \div TicksPerDay)

\* --------------------------------------------------------------------------
\* CredentialStore (user_auth.py)
\* --------------------------------------------------------------------------
RowsOf(tbl, u, p) == { i \in 1..Len(tbl) : tbl[i].user_id = u /\ tbl[i].platform = p }

\* expires_at = datetime.now() + timedelta(seconds=expires_in) when the payload
\* carries expires_in, else None
ExpiresAt(td, t) ==
    IF td.expires_in = NoExpiresIn THEN NoExpiry ELSE t + td.expires_in * TicksPerSecond

\* INSERT OR REPLACE INTO social_tokens: the table declares no UNIQUE key over
\* (user_id, platform), its only key is the AUTOINCREMENT id, which the
\* statement does not supply; no conflict can arise and a row is appended.
InsertOrReplaceToken(tbl, u, p, td, t) ==
    Append(tbl, [ id |-> Len(tbl) + 1,
                  user_id |-> u,
                  platform |-> p,
                  access_token |-> td.access_token,
                  refresh_token |-> td.refresh_token,
                  expires_at |-> ExpiresAt(td, t),
                  created_at |-> CurrentTimestamp(t) ])

\* SELECT ... WHERE user_id = ? AND platform = ? ORDER BY created_at DESC LIMIT 1:
\* the rows the statement may return. Rows with equal created_at are in no
\* defined order, so each of them may come first.
SelectLatest(tbl, u, p) ==
    { i \in RowsOf(tbl, u, p) :
        \A j \in RowsOf(tbl, u, p) : tbl[j].created_at <= tbl[i].created_at }

\* the test `expires_at and datetime.fromisoformat(expires_at) < datetime.now()`
IsExpired(row, t) == row.expires_at /= NoExpiry /\ row.expires_at < t

\* the dictionary get_user_token returns for a row
TokenOf(row) ==
    [ access_token |-> row.access_token,
      refresh_token |-> row.refresh_token,
      expires_at |-> row.expires_at,
      id |-> row.id ]

\* refresh_token / _refresh_twitter_token / _refresh_linkedin_token: every
\* branch returns None.
RefreshToken(u, p, rt) == None

\* a failed refresh that blanks the access token of the row it was tried for
RefreshedTableBlanking(tbl, i) == [ tbl EXCEPT ![i].access_token = None ]

\* the table after refresh_token ran for row i: no branch of it writes
RefreshedTable(tbl, i) == tbl

\* a thread's get_user_token call: its arguments, the row fetchone() gave it
\* (0: none), whether it returns a token, and the refresh calls it has made
IdleGet == [ pc |-> "idle", user_id |-> None, platform |-> None, row |-> 0,
             found |-> FALSE, refreshes |-> 0 ]

\* --------------------------------------------------------------------------
\* UsageTracker (user_auth.py)
\* --------------------------------------------------------------------------
UsageKey(r) == <<r.user_id, r.platform, r.endpoint>>

\* INSERT OR IGNORE INTO api_usage ... VALUES (?, ?, ?, 1, date('now')): the
\* table's only key is the AUTOINCREMENT id, nothing can conflict, so the row
\* is always inserted.
InsertOrIgnoreUsage(tbl, u, p, e, t) ==
    Append(tbl, [ user_id |-> u, platform |-> p, endpoint |-> e,
                  usage_count |-> 1, date |-> DateNow(t) ])

\* UPDATE api_usage SET usage_count = usage_count + 1
\* WHERE user_id = ? AND platform = ? AND endpoint = ? AND date = date('now')
UpdateUsage(tbl, u, p, e, t) ==
    [ i \in 1..Len(tbl) |->
        IF UsageKey(tbl[i]) = <<u, p, e>> /\ tbl[i].date = DateNow(t)
        THEN [ tbl[i] EXCEPT !.usage_count = @ + 1 ]
        ELSE tbl[i] ]

\* the two statements of track_api_usage, in one transaction
TrackedTable(tbl, u, p, e, t) == UpdateUsage(InsertOrIgnoreUsage(tbl, u, p, e, t), u, p, e, t)

\* WHERE ... AND date >= date('now', '-{days} days')
InWindow(d, days, t) == d >= DateNow(t) - days

RECURSIVE SumCounts(_, _)
\* SUM(usage_count) over the rows of `tbl` whose index is in `rows`
SumCounts(tbl, rows) ==
    IF rows = {} THEN 0
    ELSE LET i == CHOOSE x \in rows : TRUE
         IN  tbl[i].usage_count + SumCounts(tbl, rows \ {i})

UsageRows(tbl, u, p, e, days, t) ==
    { i \in 1..Len(tbl) : /\ UsageKey(tbl[i]) = <<u, p, e>>
                          /\ InWindow(tbl[i].date, days, t) }

\* get_user_usage: SELECT endpoint, SUM(usage_count) ... GROUP BY endpoint, as
\* the dictionary {endpoint: total}; an endpoint without a row in the window
\* has no entry.
GetUserUsage(tbl, u, p, days, t) ==
    [ e \in { x \in Endpoints : UsageRows(tbl, u, p, x, days, t) /= {} } |->
        SumCounts(tbl, UsageRows(tbl, u, p, e, days, t)) ]

NoReply == [ user_id |-> None, platform |-> None, days |-> 0, at |-> 0, usage |-> <<>> ]

\* --------------------------------------------------------------------------
\* Scouts (agents/*.py)
\* --------------------------------------------------------------------------
MAX_RETRIES == 3

\* track_api_usage calls one hybrid scout call can make: one in the scout, one
\* in _search_with_user_token
TracksPerCall == 2

Scouts == {"linkedin_scout", "x_scout", "scout_from_email", "internet_scout"}

HybridScouts == {"linkedin_scout", "x_scout"}

\* config.API_STRATEGY
API_STRATEGY == [ linkedin_scout |-> "hybrid", x_scout |-> "hybrid",
                  scout_from_email |-> "shared", internet_scout |-> "shared" ]

\* the API keys of config.py come from the environment and may be empty; the
\* real and enhanced modules are imported inside try/except ImportError
Envs == [ phantombuster_key : BOOLEAN, twitter_bearer : BOOLEAN,
          pdl_key : BOOLEAN, google_key : BOOLEAN,
          real_importable : BOOLEAN, enhanced_importable : BOOLEAN ]

\* the defaults of config.py
DefaultEnv == [ phantombuster_key |-> FALSE, twitter_bearer |-> FALSE,
                pdl_key |-> TRUE, google_key |-> TRUE,
                real_importable |-> TRUE, enhanced_importable |-> TRUE ]

PlatformOf(s) == IF s = "linkedin_scout" THEN "linkedin" ELSE "twitter"

\* the provenance tag of the AuthenticatedUser tier
OAuthTag(s) == IF s = "linkedin_scout" THEN "linkedin_oauth" ELSE "twitter_oauth"

\* the provenance tag the shared provider's profiles carry
SharedTag(s) ==
    CASE s = "linkedin_scout" -> "phantombuster_linkedin"
      [] s = "x_scout" -> "twitter_api"
      [] s = "scout_from_email" -> "people_data_labs"
      [] s = "internet_scout" -> "google_search"

\* the endpoint _search_with_user_token tracks
EnhancedEndpoint(s) == IF s = "linkedin_scout" THEN "profile_search" ELSE "user_search"

\* is the shared provider's key configured
SharedKey(e, s) ==
    CASE s = "linkedin_scout" -> e.phantombuster_key
      [] s = "x_scout" -> e.twitter_bearer
      [] s = "scout_from_email" -> e.pdl_key
      [] s = "internet_scout" -> e.google_key

Profile(name, source) == [ name |-> name, source |-> source ]

\* n profiles parsed from a provider's answer
Hits(n, source) == [ i \in 1..n |-> Profile("hit" \o ToString(i), source) ]

\* the stand-in of the scout wrapper (Strategy 3 / "Mock implementation")
WrapperMock(s) ==
    CASE s = "linkedin_scout" -> Profile("Bob LinkedIn", "linkedin_scout_mock")
      [] s = "x_scout" -> Profile("Alice X", "x_scout_mock")
      [] s = "scout_from_email" -> Profile("John Doe", "email_scout_mock")
      [] s = "internet_scout" -> Profile("Charlie Web", "internet_scout_mock")

\* the stand-in of the real module (_fallback_linkedin_scout, _fallback_x_scout,
\* _fallback_email_scout, _fallback_internet_scout)
RealFallback(s) ==
    CASE s = "linkedin_scout" -> Profile("LinkedIn Professional", "fallback")
      [] s = "x_scout" -> Profile("Twitter User", "fallback")
      [] s = "scout_from_email" -> Profile("Unknown User", "fallback")
      [] s = "internet_scout" -> Profile("Web Professional", "fallback")

\* the stand-in of the enhanced module (_fallback_linkedin_search,
\* _fallback_twitter_search without a bearer token)
EnhancedMock(s) ==
    IF s = "linkedin_scout" THEN Profile("LinkedIn Professional", "fallback")
    ELSE Profile("Twitter User", "fallback")

NoToken == [ access_token |-> None, refresh_token |-> None,
             expires_at |-> NoExpiry, id |-> 0 ]

\* what one uninterrupted get_user_token(u, p) may return at time t; NoToken
\* stands for None
GetUserTokenResults(tbl, u, p, t) ==
    IF RowsOf(tbl, u, p) = {} THEN { NoToken }
    ELSE { IF IsExpired(tbl[i], t)
           THEN (IF RefreshToken(u, p, tbl[i].refresh_token) = None THEN NoToken
                 ELSE TokenOf(tbl[i]))
           ELSE TokenOf(tbl[i]) : i \in SelectLatest(tbl, u, p) }

\* the history of track calls after one more by user u
Tracked(h, u, p, e, t) ==
    IF u \in Users THEN [ h EXCEPT ![<<u, p, e, DateNow(t)>>] = @ + 1 ] ELSE h

IdleCall == [ scout |-> None, user_id |-> None, status |-> "idle", pc |-> "end",
              profiles |-> <<>>, result |-> <<>>, tier |-> None,
              attempt |-> 0, log |-> <<>>, user_token |-> NoToken ]

\* `return profiles` out of tier `tier`
Returned(c, profiles, tier, events) ==
    [ c EXCEPT !.status = "returned", !.pc = "end", !.result = profiles,
               !.tier = tier, !.log = @ \o events ]

\* an exception leaves the scout
Raised(c, events) == [ c EXCEPT !.status = "raised", !.pc = "end", !.log = @ \o events ]

Running(pc) == call.status = "running" /\ call.pc = pc

\* the tables one store_social_token call leaves behind
SeedTables ==
    { <<>> } \cup { InsertOrReplaceToken(<<>>, u, p, td, 0) :
                        u \in Users, p \in Platforms, td \in TokenPayloads }

ScoutStartAllHybrid(s, u) ==
    /\ call.status = "idle"
    /\ Len(api_usage) + TracksPerCall <= MaxUsageRows
    /\ call' = [ IdleCall EXCEPT
                   !.scout = s, !.user_id = u, !.status = "running",
                   !.pc = IF u /= None THEN "lookup" ELSE "shared" ]
    /\ UNCHANGED <<now, social_tokens, api_usage, gets, tracked, usage_reply, env, rank, req,
                   users, user_reply, fetch, tracks>>

\* the scout is called: linkedin_scout(query, user_id), x_scout(query, user_id),
\* scout_from_email(email, user_id), internet_scout(query, user_id)
ScoutStart(s, u) ==
    /\ call.status = "idle"
    /\ Len(api_usage) + TracksPerCall <= MaxUsageRows
    /\ call' = [ IdleCall EXCEPT
                   !.scout = s, !.user_id = u, !.status = "running",
                   !.pc = IF s \in HybridScouts
                          THEN (IF u /= None /\ API_STRATEGY[s] = "hybrid"
                                THEN "lookup" ELSE "shared")
                          ELSE (IF API_STRATEGY[s] = "shared" THEN "shared" ELSE "mock") ]
    /\ UNCHANGED <<now, social_tokens, api_usage, gets, tracked, usage_reply, env, rank, req,
                   users, user_reply, fetch, tracks>>

HybridLookupIgnoringToken ==
    /\ Running("lookup")
    /\ call' = [ call EXCEPT !.pc = "track", !.log = Append(@, "get_user_token") ]
    /\ UNCHANGED <<now, social_tokens, api_usage, gets, tracked, usage_reply, env, rank, req,
                   users, user_reply, fetch, tracks>>

\* Strategy 1: user_token = auth_manager.get_user_token(user_id, platform);
\* the call sits in no try block
HybridLookup ==
    /\ Running("lookup")
    /\ \/ call' = Raised(call, <<"get_user_token">>)
       \/ \E tok \in GetUserTokenResults(social_tokens, call.user_id,
                                         PlatformOf(call.scout), now) :
            call' = [ call EXCEPT !.pc = IF tok /= NoToken THEN "track" ELSE "shared",
                                  !.log = Append(@, "get_user_token") ]
    /\ UNCHANGED <<now, social_tokens, api_usage, gets, tracked, usage_reply, env, rank, req,
                   users, user_reply, fetch, tracks>>

HybridTrackSkipped ==
    /\ Running("track")
    /\ call' = [ call EXCEPT !.pc = IF env.enhanced_importable THEN "enh_lookup"
                                    ELSE "shared" ]
    /\ UNCHANGED <<now, social_tokens, api_usage, gets, tracked, usage_reply, env, rank, req,
                   users, user_reply, fetch, tracks>>

\* Strategy 1: the import of the enhanced module, then track_api_usage; only
\* ImportError is caught
HybridTrack ==
    /\ Running("track")
    /\ IF ~env.enhanced_importable
       THEN /\ call' = [ call EXCEPT !.pc = "shared" ]
            /\ UNCHANGED <<api_usage, tracked>>
       ELSE \/ /\ call' = Raised(call, <<"track_api_usage">>)
               /\ UNCHANGED <<api_usage, tracked>>
            \/ /\ api_usage' = TrackedTable(api_usage, call.user_id,
                                            PlatformOf(call.scout), "search", now)
               /\ tracked' = Tracked(tracked, call.user_id, PlatformOf(call.scout),
                                     "search", now)
               /\ call' = [ call EXCEPT !.pc = "enh_lookup",
                                        !.log = Append(@, "track_api_usage") ]
    /\ UNCHANGED <<now, social_tokens, gets, usage_reply, env, rank, req,
                   users, user_reply, fetch, tracks>>

\* linkedin_scout_enhanced / x_scout_enhanced: the second get_user_token,
\* whose dictionary `if user_token:` hands to _search_with_user_token
EnhancedLookup ==
    /\ Running("enh_lookup")
    /\ \/ call' = Raised(call, <<"get_user_token">>)
       \/ \E tok \in GetUserTokenResults(social_tokens, call.user_id,
                                         PlatformOf(call.scout), now) :
            call' = [ call EXCEPT !.pc = IF tok /= NoToken THEN "enh_search"
                                                          ELSE "enh_fallback",
                                  !.user_token = tok,
                                  !.log = Append(@, "get_user_token") ]
    /\ UNCHANGED <<now, social_tokens, api_usage, gets, tracked, usage_reply, env, rank, req,
                   users, user_reply, fetch, tracks>>

\* _search_with_user_token: track_api_usage(token_data.get('user_id'), ...) and
\* the provider calls with the user's token, all inside try/except Exception;
\* the token dictionary has no key 'user_id'. `if profiles: return profiles`
EnhancedUserSearch ==
    /\ Running("enh_search")
    /\ \/ /\ call' = [ call EXCEPT !.pc = "enh_fallback", !.profiles = <<>>,
                                   !.log = Append(@, "track_api_usage") ]
          /\ UNCHANGED api_usage
       \/ /\ api_usage' = TrackedTable(api_usage, None, PlatformOf(call.scout),
                                       EnhancedEndpoint(call.scout), now)
          /\ \E n \in 0..MaxHits :
               call' = [ call EXCEPT !.pc = IF n > 0 THEN "decide" ELSE "enh_fallback",
                                     !.profiles = Hits(n, OAuthTag(call.scout)),
                                     !.log = @ \o <<"track_api_usage", "user_api">> ]
    /\ tracked' = Tracked(tracked, None, PlatformOf(call.scout),
                          EnhancedEndpoint(call.scout), now)
    /\ UNCHANGED <<now, social_tokens, gets, usage_reply, env, rank, req,
                   users, user_reply, fetch, tracks>>

\* _fallback_linkedin_search: _phantombuster_search (a stub returning []) when
\* the key is set, else the stand-in
EnhancedFallbackLinkedin ==
    /\ Running("enh_fallback")
    /\ call.scout = "linkedin_scout"
    /\ IF env.phantombuster_key
       THEN call' = [ call EXCEPT !.pc = "decide", !.profiles = <<>> ]
       ELSE call' = [ call EXCEPT !.pc = "decide",
                                  !.profiles = << EnhancedMock(call.scout) >>,
                                  !.log = Append(@, "mock") ]
    /\ UNCHANGED <<now, social_tokens, api_usage, gets, tracked, usage_reply, env, rank, req,
                   users, user_reply, fetch, tracks>>

\* _fallback_twitter_search: _shared_api_search with the shared bearer token
\* when it is set, whose users _parse_twitter_user tags 'twitter_oauth'; else
\* the stand-in
EnhancedFallbackTwitter ==
    /\ Running("enh_fallback")
    /\ call.scout = "x_scout"
    /\ IF env.twitter_bearer
       THEN \E n \in 0..MaxHits :
              call' = [ call EXCEPT !.pc = "decide",
                                    !.profiles = Hits(n, "twitter_oauth"),
                                    !.log = Append(@, "shared_api") ]
       ELSE call' = [ call EXCEPT !.pc = "decide",
                                  !.profiles = << EnhancedMock(call.scout) >>,
                                  !.log = Append(@, "mock") ]
    /\ UNCHANGED <<now, social_tokens, api_usage, gets, tracked, usage_reply, env, rank, req,
                   users, user_reply, fetch, tracks>>

HasTag(profiles, tag) == \E i \in 1..Len(profiles) : profiles[i].source = tag

\* `if profiles and any(p.get('source') == '<platform>_oauth' ...): return profiles`
HybridDecide ==
    /\ Running("decide")
    /\ IF call.profiles /= <<>> /\ HasTag(call.profiles, OAuthTag(call.scout))
       THEN call' = Returned(call, call.profiles, "user", <<>>)
       ELSE call' = [ call EXCEPT !.pc = "shared" ]
    /\ UNCHANGED <<now, social_tokens, api_usage, gets, tracked, usage_reply, env, rank, req,
                   users, user_reply, fetch, tracks>>

\* Strategy 2 of linkedin_scout, x_scout and internet_scout: `return
\* real_scout(query)`; the real module answers with its own stand-in when its
\* key is missing or it fails, and with whatever the provider gave otherwise
SharedTier ==
    /\ Running("shared")
    /\ call.scout /= "scout_from_email"
    /\ IF ~env.real_importable
       THEN call' = [ call EXCEPT !.pc = "mock" ]
       ELSE IF ~SharedKey(env, call.scout)
       THEN call' = Returned(call, << RealFallback(call.scout) >>, "shared", <<"mock">>)
       ELSE \/ \E n \in 0..MaxHits :
                 call' = Returned(call, Hits(n, SharedTag(call.scout)), "shared",
                                  <<"shared_api">>)
            \/ call' = Returned(call, << RealFallback(call.scout) >>, "shared",
                                <<"shared_api", "mock">>)
    /\ UNCHANGED <<now, social_tokens, api_usage, gets, tracked, usage_reply, env, rank, req,
                   users, user_reply, fetch, tracks>>

\* scout_from_email up to the retry loop of email_scout_real
EmailShared ==
    /\ Running("shared")
    /\ call.scout = "scout_from_email"
    /\ IF ~env.real_importable
       THEN call' = [ call EXCEPT !.pc = "mock" ]
       ELSE IF ~SharedKey(env, call.scout)
       THEN call' = Returned(call, << RealFallback(call.scout) >>, "shared", <<"mock">>)
       ELSE call' = [ call EXCEPT !.pc = "attempt", !.attempt = 0 ]
    /\ UNCHANGED <<now, social_tokens, api_usage, gets, tracked, usage_reply, env, rank, req,
                   users, user_reply, fetch, tracks>>

\* what one requests.get of the PDL loop may come to
PdlOutcomes == { "200_data", "200_empty", "404", "429", "other_status",
                 "timeout", "request_exception", "exception" }

\* `continue`, or the end of the loop body: the next attempt if one is left,
\* else `return []`
NextAttempt(c) ==
    IF c.attempt + 1 < MAX_RETRIES
    THEN [ c EXCEPT !.attempt = @ + 1, !.log = Append(@, "shared_api") ]
    ELSE Returned(c, <<>>, "shared", <<"shared_api">>)

\* one pass of `for attempt in range(MAX_RETRIES)` in email_scout_real
EmailAttempt(o) ==
    /\ Running("attempt")
    /\ call' =
         CASE o = "200_data" ->
                Returned(call, Hits(1, SharedTag(call.scout)), "shared", <<"shared_api">>)
           [] o \in {"200_empty", "429"} -> NextAttempt(call)
           [] o = "timeout" ->
                IF call.attempt < MAX_RETRIES - 1 THEN NextAttempt(call)
                ELSE Returned(call, <<>>, "shared", <<"shared_api">>)
           [] o \in {"404", "other_status", "request_exception"} ->
                Returned(call, <<>>, "shared", <<"shared_api">>)
           [] o = "exception" ->
                Returned(call, << RealFallback(call.scout) >>, "shared",
                         <<"shared_api", "mock">>)
    /\ UNCHANGED <<now, social_tokens, api_usage, gets, tracked, usage_reply, env, rank, req,
                   users, user_reply, fetch, tracks>>

\* Strategy 3: the wrapper's mock profile
MockTier ==
    /\ Running("mock")
    /\ call' = Returned(call, << WrapperMock(call.scout) >>, "offline", <<"mock">>)
    /\ UNCHANGED <<now, social_tokens, api_usage, gets, tracked, usage_reply, env, rank, req,
                   users, user_reply, fetch, tracks>>

\* the caller has the list or the exception
ScoutEnd ==
    /\ call.status \in {"returned", "raised"}
    /\ call' = IdleCall
    /\ UNCHANGED <<now, social_tokens, api_usage, gets, tracked, usage_reply, env, rank, req,
                   users, user_reply, fetch, tracks>>

\* --------------------------------------------------------------------------
\* Aggregator: agents/validate_rank.py
\* --------------------------------------------------------------------------
MaxProfiles == 4        \* longest list handed to validate_and_rank

\* scores and confidences in tenths: 1.0 is 10
PlaceholderScore == 10

\* a candidate as a scout hands it over: the keys validate_and_rank and the
\* identity of a person can depend on
Candidate(name, linkedin, confidence, source) ==
    [name |-> name, linkedin |-> linkedin, confidence |-> confidence,
     source |-> source]

CandidateNames == {"Ann Lee", "ann  lee", "Bo Ray"}
CandidateLinks == {"", "linkedin.com/in/ann", "linkedin.com/in/lee"}
Confidences == {5, 9}

Candidates ==
    { Candidate(n, l, c, "linkedin_oauth") :
        n \in CandidateNames, l \in CandidateLinks, c \in Confidences }

\* p['score'] = 1.0 on the kept dictionary
Scored(p) == [score |-> PlaceholderScore] @@ p

\* the loop over profiles with the set seen and the list unique
RECURSIVE DedupByName(_, _, _)
DedupByName(profiles, seen, unique) ==
    IF profiles = <<>>
    THEN unique
    ELSE LET p == Head(profiles) IN
         IF p.name \notin seen
         THEN DedupByName(Tail(profiles), seen \cup {p.name},
                          Append(unique, Scored(p)))
         ELSE DedupByName(Tail(profiles), seen, unique)

RECURSIVE InsertByScoreUnstable(_, _)
\* a sort that puts an element before the elements of equal score
InsertByScoreUnstable(p, sorted) ==
    IF sorted = <<>>
    THEN << p >>
    ELSE IF Head(sorted).score > p.score
         THEN << Head(sorted) >> \o InsertByScoreUnstable(p, Tail(sorted))
         ELSE << p >> \o sorted

\* sorted(..., key=score, reverse=True): a stable sort, so an element goes
\* behind every element already placed whose score is at least its own
RECURSIVE InsertByScore(_, _)
InsertByScore(p, sorted) ==
    IF sorted = <<>>
    THEN << p >>
    ELSE IF Head(sorted).score >= p.score
         THEN << Head(sorted) >> \o InsertByScore(p, Tail(sorted))
         ELSE << p >> \o sorted

RECURSIVE SortedByScore(_, _)
SortedByScore(unique, sorted) ==
    IF unique = <<>>
    THEN sorted
    ELSE SortedByScore(Tail(unique), InsertByScore(Head(unique), sorted))

validate_and_rank(profiles) ==
    SortedByScore(DedupByName(profiles, {}, <<>>), <<>>)

IdleRank == [input |-> <<>>, output |-> <<>>, done |-> FALSE]

RankInputs ==
    UNION { [1..n -> Candidates] : n \in 0..MaxProfiles }

\* one call of validate_and_rank
ValidateAndRank ==
    /\ ~rank.done
    /\ rank' = [ rank EXCEPT !.output = validate_and_rank(rank.input),
                             !.done = TRUE ]
    /\ UNCHANGED <<now, social_tokens, api_usage, gets, tracked, usage_reply,
                   env, call, req, users, user_reply, fetch, tracks>>

\* --------------------------------------------------------------------------
\* Users: user_auth.py create_user, and the endpoint /api/user/create
\* --------------------------------------------------------------------------
UserEmails == { "a@acme.io", "b@acme.io" }

\* str(uuid.uuid4()): an id no row of the table has
Uuid4(tbl) == "u-created" \o ToString(Len(tbl) + 1)

EmailRows(tbl, email) == { i \in 1..Len(tbl) : tbl[i].email = email }

CreateUserAlwaysInserts(tbl, email) ==
    [ table |-> Append(tbl, [ user_id |-> Uuid4(tbl), email |-> email ]),
      user_id |-> Uuid4(tbl) ]

\* create_user(email): INSERT INTO users; email is UNIQUE, so for an email
\* that has a row the INSERT raises IntegrityError and the id of that row is
\* selected and returned
CreateUser(tbl, email) ==
    IF EmailRows(tbl, email) = {}
    THEN [ table |-> Append(tbl, [ user_id |-> Uuid4(tbl), email |-> email ]),
           user_id |-> Uuid4(tbl) ]
    ELSE [ table |-> tbl,
           user_id |-> tbl[CHOOSE i \in EmailRows(tbl, email) : TRUE].user_id ]

NoUserReply == [ status |-> 0, email |-> None, user_id |-> None ]

\* POST /api/user/create with a non-empty email; the handlers of the
\* application are served one at a time
CreateUserEndpoint(email) ==
    /\ user_reply = NoUserReply
    /\ req.pc \in {"idle", "done"}
    /\ LET made == CreateUser(users, email)
       IN  /\ users' = made.table
           /\ user_reply' = [ status |-> 200, email |-> email, user_id |-> made.user_id ]
    /\ UNCHANGED <<now, social_tokens, api_usage, gets, tracked, usage_reply, env, call,
                   rank, req, fetch, tracks>>

\* the answer has left
UserReplySent ==
    /\ user_reply /= NoUserReply
    /\ user_reply' = NoUserReply
    /\ UNCHANGED <<now, social_tokens, api_usage, gets, tracked, usage_reply, env, call,
                   rank, req, users, fetch, tracks>>

\* --------------------------------------------------------------------------
\* PipelineController: app.lead_discovery, agents/reasoning.py,
\* agents/message_gen.py
\* --------------------------------------------------------------------------
MaxQueries == 1         \* most queries per platform in a plan Gemini answers
MaxCollected == 2       \* most profiles one fan-out collects
MaxFailures == 1        \* most entries of the list errors in one request

DefaultTarget == 20     \* data.get('target', 20)
FallbackQueries == 3    \* queries per platform of generate_fallback_plan

\* the request as Flask hands it over.  body: "not_json" is a request whose
\* content type is not JSON, "non_object" a JSON body that is no object (a
\* list, a string, a number, null), "object" a JSON object with the members
\* below; a member that is missing or empty is None.  goal holds the JSON
\* type of the member, target_kind the JSON type of target ("absent" when
\* the member is missing).
Bodies == {"not_json", "non_object", "object"}
EmailsKinds == {"missing", "string", "list"}
EmailLists == { <<>>, <<"e1">>, <<"e1", "e2">> }
GoalTypes == {None, "string", "number"}
TargetKinds == {"absent", "string", "int"}
TargetInts == {0, 1, 2}

AllRequests ==
    [ body : Bodies, emails_kind : EmailsKinds, emails : EmailLists,
      company_info : {None, "Acme"}, goal : GoalTypes,
      target_kind : TargetKinds, target : TargetInts,
      user_id : Users \cup {None}, user_email : {None, "a@acme.io"} ]

BaseRequest ==
    [ body |-> "object", emails_kind |-> "list", emails |-> <<"e1">>,
      company_info |-> "Acme", goal |-> "string", target_kind |-> "absent",
      target |-> 0, user_id |-> None, user_email |-> None ]

\* a request is well formed when the fields a value does not have are at rest
WellFormed(r) ==
    /\ r.emails_kind /= "list" => r.emails = <<>>
    /\ r.target_kind /= "int" => r.target = 0
    /\ r.body /= "object" =>
          r = [ BaseRequest EXCEPT !.body = r.body, !.emails_kind = "missing",
                                   !.emails = <<>>, !.company_info = None,
                                   !.goal = None ]

\* lines 32-39 and 54-58: the request passes every check of the handler
Accepted(r) ==
    /\ r.body = "object"
    /\ r.emails_kind = "list" /\ r.emails /= <<>>
    /\ r.company_info /= None
    /\ r.goal /= None
    /\ r.target_kind = "absent" \/ (r.target_kind = "int" /\ r.target > 0)

\* the accepted requests served: every list of emails with every target, and
\* each other member varied on its own
AcceptedRequests ==
    { [ BaseRequest EXCEPT !.emails = e, !.target_kind = "int", !.target = t ] :
        e \in EmailLists \ {<<>>}, t \in TargetInts \ {0} }
    \cup { [ BaseRequest EXCEPT !.emails = e ] : e \in EmailLists \ {<<>>} }
    \cup { [ BaseRequest EXCEPT !.goal = "number" ] }
    \cup { [ BaseRequest EXCEPT !.user_id = u, !.user_email = m ] :
             u \in Users \cup {None}, m \in {None, "a@acme.io"} }

Requests ==
    { r \in AllRequests : WellFormed(r) /\ (Accepted(r) => r \in AcceptedRequests) }

\* n = data.get('target', 20)
TargetOf(r) == IF r.target_kind = "absent" THEN DefaultTarget ELSE r.target

NoResponse ==
    [ status |-> 0, keys |-> {}, error |-> None, profiles |-> <<>>,
      messages |-> <<>>, total_found |-> 0, returned |-> 0,
      warnings |-> <<>>, errors |-> <<>>, user_id |-> None ]

\* jsonify({'error': ...}), status
ErrorResponse(status, error) ==
    [ NoResponse EXCEPT !.status = status, !.keys = {"error"}, !.error = error ]

NoPlan == [ linkedin_queries |-> <<>>, x_queries |-> <<>>, internet_queries |-> <<>> ]

IdleRequest ==
    [ pc |-> "idle", input |-> BaseRequest, user_id |-> None,
      interpreted |-> "no", search_plan |-> NoPlan, planned |-> <<>>,
      next |-> 1, profiles |-> <<>>, errors |-> <<>>,
      unique_profiles |-> <<>>, messages |-> <<>>, generated |-> <<>>,
      calls |-> <<>>, response |-> NoResponse ]

Answered(r, response) == [ r EXCEPT !.pc = "done", !.response = response ]

\* lines 24-58 of lead_discovery: the checks in the order of the code, with
\* create_user between the check of goal and the check of target
Validate(r) ==
    /\ req.pc = "idle"
    /\ LET started == [ IdleRequest EXCEPT !.input = r ]
           creates == r.user_email /= None /\ r.user_id = None
           made == IF creates THEN CreateUser(users, r.user_email)
                   ELSE [ table |-> users, user_id |-> r.user_id ]
           user_id == made.user_id
           created == IF creates THEN <<"create_user">> ELSE <<>>
           reached == /\ r.body = "object"
                      /\ r.emails_kind = "list" /\ r.emails /= <<>>
                      /\ r.company_info /= None
                      /\ r.goal /= None
       IN
       /\ users' = IF reached THEN made.table ELSE users
       /\ req' =
            IF r.body = "not_json"
            THEN Answered(started, ErrorResponse(400, "Request must be JSON"))
            ELSE IF r.body = "non_object"
            THEN Answered(started, ErrorResponse(500, "Internal server error"))
            ELSE IF r.emails_kind /= "list" \/ r.emails = <<>>
            THEN Answered(started,
                   ErrorResponse(400, "emails field is required and must be a list"))
            ELSE IF r.company_info = None
            THEN Answered(started, ErrorResponse(400, "company_info field is required"))
            ELSE IF r.goal = None
            THEN Answered(started, ErrorResponse(400, "goal field is required"))
            ELSE IF r.target_kind = "string" \/ (r.target_kind = "int" /\ r.target <= 0)
            THEN Answered([ started EXCEPT !.user_id = user_id, !.calls = created ],
                   ErrorResponse(400, "target must be a positive integer"))
            ELSE [ started EXCEPT !.pc = "interpret", !.user_id = user_id,
                                  !.calls = created ]
    /\ UNCHANGED <<now, social_tokens, api_usage, gets, tracked, usage_reply,
                   env, call, rank, user_reply, fetch, tracks>>

\* what the Gemini call inside interpret_goal does: it answers a JSON object
\* (whose lists the code takes as they are), answers text json.loads rejects,
\* or raises
Queries(prefix, n) == [ i \in 1..n |-> prefix \o ToString(i) ]

GeminiPlans ==
    { [ linkedin_queries |-> Queries("linkedin query ", l),
        x_queries |-> Queries("x query ", x),
        internet_queries |-> Queries("web query ", w) ] :
        l \in 0..MaxQueries, x \in 0..MaxQueries, w \in 0..MaxQueries }

\* generate_fallback_plan
FallbackPlan ==
    [ linkedin_queries |-> Queries("goal linkedin ", FallbackQueries),
      x_queries |-> Queries("goal x ", FallbackQueries),
      internet_queries |-> Queries("goal web ", FallbackQueries) ]

PlannedFor(scout, args) == [ i \in 1..Len(args) |-> [scout |-> scout, arg |-> args[i]] ]

\* the four loops of the fan-out, in the order of the code
Planned(emails, plan) ==
    PlannedFor("scout_from_email", emails)
    \o PlannedFor("linkedin_scout", plan.linkedin_queries)
    \o PlannedFor("x_scout", plan.x_queries)
    \o PlannedFor("internet_scout", plan.internet_queries)

\* lines 60-65 with interpret_goal: a plan from Gemini, or the fallback plan
\* when Gemini raised or answered no JSON; generate_fallback_plan calls
\* goal.replace and raises on a goal that is no string
InterpretGoal ==
    /\ req.pc = "interpret"
    /\ LET called == [ req EXCEPT !.calls = Append(@, "interpret_goal") ] IN
       \/ \E plan \in GeminiPlans :
            req' = [ called EXCEPT !.pc = "fanout", !.interpreted = "gemini",
                                   !.search_plan = plan,
                                   !.planned = Planned(req.input.emails, plan) ]
       \/ IF req.input.goal = "string"
          THEN req' = [ called EXCEPT !.pc = "fanout", !.interpreted = "fallback",
                          !.search_plan = FallbackPlan,
                          !.planned = Planned(req.input.emails, FallbackPlan) ]
          ELSE req' = Answered([ called EXCEPT !.interpreted = "raised" ],
                               ErrorResponse(500, "Failed to interpret goal"))
    /\ UNCHANGED <<now, social_tokens, api_usage, gets, tracked, usage_reply,
                   env, call, rank, users, user_reply, fetch, tracks>>

\* what one scout call hands back when it does not raise
ScoutResults(scout) ==
    { <<>> } \cup { Hits(n, SharedTag(scout)) : n \in 1..MaxHits }

\* the entry of errors for a failed scout call
ScoutFailed(c) == [ stage |-> c.scout, subject |-> c.arg ]

\* lines 67-101: one pass of a loop body, the scout call inside its try
ScoutCall ==
    /\ req.pc = "fanout"
    /\ req.next <= Len(req.planned)
    /\ LET c == req.planned[req.next]
           called == [ req EXCEPT !.next = @ + 1, !.calls = Append(@, c.scout) ]
       IN
       \/ /\ Len(req.errors) < MaxFailures
          /\ req' = [ called EXCEPT !.errors = Append(@, ScoutFailed(c)) ]
       \/ \E result \in ScoutResults(c.scout) :
            /\ Len(req.profiles) + Len(result) <= MaxCollected
            /\ req' = [ called EXCEPT !.profiles = @ \o result ]
    /\ UNCHANGED <<now, social_tokens, api_usage, gets, tracked, usage_reply,
                   env, call, rank, users, user_reply, fetch, tracks>>

\* an empty answer that leaves the list errors behind
EmptyResponseWithoutErrors(r) ==
    [ NoResponse EXCEPT !.status = 200,
                        !.keys = {"profiles", "message", "user_id"},
                        !.user_id = r.user_id ]

\* lines 103-109: nothing collected
EmptyResponse(r) ==
    [ NoResponse EXCEPT !.status = 200,
                        !.keys = {"profiles", "message", "errors", "user_id"},
                        !.errors = r.errors, !.user_id = r.user_id ]

\* a slice that keeps one profile more than asked for
TruncatedOneMore(profiles, n) ==
    SubSeq(profiles, 1, IF n + 1 < Len(profiles) THEN n + 1 ELSE Len(profiles))

\* unique_profiles[:n]
Truncated(profiles, n) == SubSeq(profiles, 1, IF n < Len(profiles) THEN n ELSE Len(profiles))

\* lines 103-117: after the loops, the empty answer or dedup, rank, truncate;
\* validate_and_rank sits in a try of its own whose handler answers 500 (it
\* raises TypeError or KeyError on a profile whose 'name' a provider gave as a
\* list or left out)
Aggregate ==
    /\ req.pc = "fanout"
    /\ req.next > Len(req.planned)
    /\ IF req.profiles = <<>>
       THEN req' = Answered(req, EmptyResponse(req))
       ELSE LET called == [ req EXCEPT !.calls = Append(@, "validate_and_rank") ]
            IN  \/ req' = [ called EXCEPT
                              !.pc = "messages",
                              !.unique_profiles =
                                  Truncated(validate_and_rank(req.profiles),
                                            TargetOf(req.input)) ]
                \/ req' = Answered(called,
                             ErrorResponse(500, "Failed to validate and rank profiles"))
    /\ UNCHANGED <<now, social_tokens, api_usage, gets, tracked, usage_reply,
                   env, call, rank, users, user_reply, fetch, tracks>>

\* what generate_message does for one profile: "generated" is Gemini's text
\* handed back; "fallback" the text of generate_fallback_message, returned
\* when the Gemini call raised or its text was too long or too short;
\* "raised" an exception that leaves generate_message
MessageOutcomes == {"generated", "fallback", "raised"}

\* the entry of errors for a profile whose generate_message raised
MessageFailed(p) == [ stage |-> "generate_message", subject |-> p.name ]

\* the message profile['message'] ends up with
MessageText(outcome) ==
    CASE outcome = "generated" -> "gemini text"
      [] outcome = "fallback" -> "fallback message"
      [] outcome = "raised" -> "handler template"

\* lines 119-126: one pass of the loop over unique_profiles
GenerateMessage ==
    /\ req.pc = "messages"
    /\ Len(req.messages) < Len(req.unique_profiles)
    /\ LET p == req.unique_profiles[Len(req.messages) + 1]
           called == [ req EXCEPT !.calls = Append(@, "generate_message") ]
       IN
       \E outcome \in MessageOutcomes :
          /\ outcome = "raised" => Len(req.errors) < MaxFailures
          /\ req' = [ called EXCEPT
                        !.messages = Append(@, MessageText(outcome)),
                        !.generated = Append(@, outcome),
                        !.errors = IF outcome = "raised"
                                   THEN Append(@, MessageFailed(p)) ELSE @ ]
    /\ UNCHANGED <<now, social_tokens, api_usage, gets, tracked, usage_reply,
                   env, call, rank, users, user_reply, fetch, tracks>>

\* lines 128-138
ResultResponse(r) ==
    [ NoResponse EXCEPT
        !.status = 200,
        !.keys = {"profiles", "total_found", "returned", "user_id"}
                 \cup (IF r.errors /= <<>> THEN {"warnings"} ELSE {}),
        !.profiles = r.unique_profiles,
        !.messages = r.messages,
        !.total_found = Len(r.profiles),
        !.returned = Len(r.unique_profiles),
        !.warnings = r.errors,
        !.user_id = r.user_id ]

RespondBeforeMessages ==
    /\ req.pc = "messages"
    /\ req' = Answered(req, ResultResponse(req))
    /\ UNCHANGED <<now, social_tokens, api_usage, gets, tracked, usage_reply,
                   env, call, rank, users, user_reply, fetch, tracks>>

\* lines 128-138: the answer once every profile has its message
Respond ==
    /\ req.pc = "messages"
    /\ Len(req.messages) = Len(req.unique_profiles)
    /\ req' = Answered(req, ResultResponse(req))
    /\ UNCHANGED <<now, social_tokens, api_usage, gets, tracked, usage_reply,
                   env, call, rank, users, user_reply, fetch, tracks>>

\* the response has left; the handler serves the next request
RequestEnd ==
    /\ req.pc = "done"
    /\ req' = IdleRequest
    /\ UNCHANGED <<now, social_tokens, api_usage, gets, tracked, usage_reply,
                   env, call, rank, users, user_reply, fetch, tracks>>

\* --------------------------------------------------------------------------
\* Resilient provider calls: the retry loops of agents/email_scout_real.py
\* (People Data Labs), agents/internet_scout_real.py (Google Custom Search)
\* and agents/x_scout_real.py (Twitter user search)
\* --------------------------------------------------------------------------
Providers == { "pdl", "google", "twitter" }

\* what one requests.get may come to: a status code, with or without a usable
\* body for 200, requests.exceptions.Timeout, another RequestException, or any
\* other exception raised inside the loop body
HttpOutcomes == { "200_data", "200_empty", "401", "403", "404", "429", "500",
                  "timeout", "request_exception", "exception" }

IdleFetch == [ provider |-> None, status |-> "idle", attempt |-> 0,
               outcomes |-> <<>>, sleeps |-> <<>>, result |-> None,
               elapsed |-> 0 ]

RECURSIVE Pow2(_)
Pow2(n) == IF n = 0 THEN 1 ELSE 2 * Pow2(n - 1)

InRangeOneMore(attempt) == attempt <= MAX_RETRIES

\* `for attempt in range(MAX_RETRIES)`
InRange(attempt) == attempt < MAX_RETRIES

\* one pass of the People Data Labs loop on outcome o: how the pass ends
\* ("return_data", "return_empty", "return_fallback", "continue", "break") and
\* the seconds of time.sleep in it. A 200 without usable data matches no
\* return and no else, so the loop goes on; the outer `except Exception`
\* answers with _fallback_email_scout
PdlPass(o, attempt) ==
    CASE o = "200_data" -> [ ends |-> "return_data", slept |-> 0 ]
      [] o = "200_empty" -> [ ends |-> "continue", slept |-> 0 ]
      [] o = "404" -> [ ends |-> "return_empty", slept |-> 0 ]
      [] o = "429" -> [ ends |-> "continue", slept |-> Pow2(attempt) ]
      [] o \in {"401", "403", "500"} -> [ ends |-> "break", slept |-> 0 ]
      [] o = "timeout" -> IF attempt < MAX_RETRIES - 1
                          THEN [ ends |-> "continue", slept |-> 1 ]
                          ELSE [ ends |-> "break", slept |-> 0 ]
      [] o = "request_exception" -> [ ends |-> "break", slept |-> 0 ]
      [] o = "exception" -> [ ends |-> "return_fallback", slept |-> 0 ]

GoogleOn403Retrying == "continue"

\* `elif response.status_code == 403: ... break`
GoogleOn403 == "break"

\* one pass of the Google Custom Search loop
GooglePass(o, attempt) ==
    CASE o = "200_data" -> [ ends |-> "return_data", slept |-> 0 ]
      [] o = "200_empty" -> [ ends |-> "return_empty", slept |-> 0 ]
      [] o = "429" -> [ ends |-> "continue", slept |-> Pow2(attempt) ]
      [] o = "403" -> [ ends |-> GoogleOn403, slept |-> 0 ]
      [] o \in {"401", "404", "500"} -> [ ends |-> "break", slept |-> 0 ]
      [] o = "timeout" -> IF attempt < MAX_RETRIES - 1
                          THEN [ ends |-> "continue", slept |-> 1 ]
                          ELSE [ ends |-> "break", slept |-> 0 ]
      [] o = "request_exception" -> [ ends |-> "break", slept |-> 0 ]
      [] o = "exception" -> [ ends |-> "return_empty", slept |-> 0 ]

\* one pass of the Twitter user search loop; on 429 a wait of 15 minutes is
\* computed and logged, then the loop is left without sleeping
TwitterPass(o, attempt) ==
    CASE o = "200_data" -> [ ends |-> "return_data", slept |-> 0 ]
      [] o = "200_empty" -> [ ends |-> "return_empty", slept |-> 0 ]
      [] o = "429" -> [ ends |-> "break", slept |-> 0 ]
      [] o \in {"401", "403", "404", "500"} -> [ ends |-> "break", slept |-> 0 ]
      [] o = "timeout" -> IF attempt < MAX_RETRIES - 1
                          THEN [ ends |-> "continue", slept |-> 2 ]
                          ELSE [ ends |-> "break", slept |-> 0 ]
      [] o = "request_exception" -> [ ends |-> "break", slept |-> 0 ]
      [] o = "exception" -> [ ends |-> "return_empty", slept |-> 0 ]

LoopPass(p, o, attempt) ==
    CASE p = "pdl" -> PdlPass(o, attempt)
      [] p = "google" -> GooglePass(o, attempt)
      [] p = "twitter" -> TwitterPass(o, attempt)

FetchReturned(f, result) == [ f EXCEPT !.status = "returned", !.result = result ]

\* the provider function enters its loop
FetchStart(p) ==
    /\ fetch.status = "idle"
    /\ InRange(0)
    /\ fetch' = [ IdleFetch EXCEPT !.provider = p, !.status = "running" ]
    /\ UNCHANGED <<now, social_tokens, api_usage, gets, tracked, usage_reply, env, call,
                   rank, req, users, user_reply, tracks>>

\* one pass of the loop: requests.get, the status chain or the except clause,
\* and what follows the loop when this pass is the last
FetchAttempt(o) ==
    /\ fetch.status = "running"
    /\ LET pass == LoopPass(fetch.provider, o, fetch.attempt)
           d == pass.ends
           f == [ fetch EXCEPT !.outcomes = Append(@, o),
                               !.sleeps = Append(@, pass.slept) ]
       IN  fetch' =
             CASE d = "return_data" -> FetchReturned(f, "profiles")
               [] d = "return_empty" -> FetchReturned(f, "empty")
               [] d = "return_fallback" -> FetchReturned(f, "fallback")
               [] d = "break" -> FetchReturned(f, "empty")
               [] d = "continue" ->
                    IF InRange(fetch.attempt + 1)
                    THEN [ f EXCEPT !.attempt = @ + 1 ]
                    ELSE FetchReturned(f, "empty")
    /\ UNCHANGED <<now, social_tokens, api_usage, gets, tracked, usage_reply, env, call,
                   rank, req, users, user_reply, tracks>>

\* the caller has the list
FetchEnd ==
    /\ fetch.status = "returned"
    /\ fetch' = IdleFetch
    /\ UNCHANGED <<now, social_tokens, api_usage, gets, tracked, usage_reply, env, call,
                   rank, req, users, user_reply, tracks>>

\* --------------------------------------------------------------------------
\* The polling loop of agents/linkedin_scout_real.py (PhantomBuster)
\* --------------------------------------------------------------------------
MaxWaitTime == 300      \* max_wait_time=300, in seconds
PollSleep == 30         \* time.sleep(30)

\* what one poll of fetch-output may come to: HTTP 200 with status 'running',
\* with status 'finished' and a CSV, with 'finished' and no output, with any
\* other status; another HTTP status; an exception (a timeout among them)
PollOutcomes == { "running", "finished_csv", "finished_no_output", "failed",
                  "http_error", "exception" }

WithinWaitAlways(elapsed) == TRUE

\* `while time.time() - start_time < max_wait_time`
WithinWait(elapsed) == elapsed < MaxWaitTime

\* one pass of the loop of _wait_for_phantom_results: the test of the while,
\* then the request and the branch for outcome o; only 'running' sleeps and
\* goes round again. attempt counts the polls made, elapsed the seconds slept:
\* the time the requests themselves take only ends the wait sooner
PollAttempt(o) ==
    /\ fetch.status = "running"
    /\ fetch.provider = "phantombuster"
    /\ IF ~WithinWait(fetch.elapsed)
       THEN fetch' = FetchReturned(fetch, "empty")
       ELSE LET f == [ fetch EXCEPT !.attempt = @ + 1 ] IN
            fetch' =
              CASE o = "running" -> [ f EXCEPT !.elapsed = @ + PollSleep ]
                [] o = "finished_csv" -> FetchReturned(f, "profiles")
                [] OTHER -> FetchReturned(f, "empty")
    /\ UNCHANGED <<now, social_tokens, api_usage, gets, tracked, usage_reply, env, call,
                   rank, req, users, user_reply, tracks>>

\* one pass of a retry loop inside a request: FetchAttempt without the record
\* of the answers and the sleeps
RetryPass(o) ==
    /\ fetch.status = "running"
    /\ fetch.provider \in Providers
    /\ LET d == LoopPass(fetch.provider, o, fetch.attempt).ends IN
       fetch' =
         CASE d = "return_data" -> FetchReturned(fetch, "profiles")
           [] d = "return_empty" -> FetchReturned(fetch, "empty")
           [] d = "return_fallback" -> FetchReturned(fetch, "fallback")
           [] d = "break" -> FetchReturned(fetch, "empty")
           [] d = "continue" ->
                IF InRange(fetch.attempt + 1)
                THEN [ fetch EXCEPT !.attempt = @ + 1 ]
                ELSE FetchReturned(fetch, "empty")
    /\ UNCHANGED <<now, social_tokens, api_usage, gets, tracked, usage_reply, env, call,
                   rank, req, users, user_reply, tracks>>

\* --------------------------------------------------------------------------
\* A scout call of the fan-out together with the loop of its shared provider
\* --------------------------------------------------------------------------
\* the provider whose loop runs inside a scout
ProviderOf(scout) ==
    CASE scout = "scout_from_email" -> "pdl"
      [] scout = "linkedin_scout" -> "phantombuster"
      [] scout = "x_scout" -> "twitter"
      [] scout = "internet_scout" -> "google"

\* lines 67-101: the loop body calls the scout, which enters its provider loop
ScoutCallBegin ==
    /\ req.pc = "fanout"
    /\ req.next <= Len(req.planned)
    /\ fetch.status = "idle"
    /\ LET c == req.planned[req.next] IN
       /\ req' = [ req EXCEPT !.pc = "scouting", !.calls = Append(@, c.scout) ]
       /\ fetch' = [ IdleFetch EXCEPT !.provider = ProviderOf(c.scout),
                                      !.status = "running" ]
    /\ UNCHANGED <<now, social_tokens, api_usage, gets, tracked, usage_reply,
                   env, call, rank, users, user_reply, tracks>>

\* lines 67-101: the provider loop is over; the scout hands back what it made
\* of the answer, or raises, and the loop body extends profiles or errors
ScoutCallEnd ==
    /\ req.pc = "scouting"
    /\ fetch.status = "returned"
    /\ LET c == req.planned[req.next]
           back == [ req EXCEPT !.pc = "fanout", !.next = @ + 1 ]
       IN
       \/ /\ Len(req.errors) < MaxFailures
          /\ req' = [ back EXCEPT !.errors = Append(@, ScoutFailed(c)) ]
       \/ \E result \in ScoutResults(c.scout) :
            /\ Len(req.profiles) + Len(result) <= MaxCollected
            /\ req' = [ back EXCEPT !.profiles = @ \o result ]
    /\ fetch' = IdleFetch
    /\ UNCHANGED <<now, social_tokens, api_usage, gets, tracked, usage_reply,
                   env, call, rank, users, user_reply, tracks>>

\* --------------------------------------------------------------------------
\* Concurrent track_api_usage calls: user_auth.py
\* --------------------------------------------------------------------------
IdleTrack == [ pc |-> "idle", user_id |-> None, platform |-> None,
               endpoint |-> None ]

\* a connection that has executed its INSERT holds the write lock of the
\* database file until it commits
WriteLocked(th) == \E other \in Threads \ {th} : tracks[other].pc = "inserted"

\* calls whose INSERT is still to come
PendingInserts == Cardinality({ th \in Threads : tracks[th].pc = "connected" })

\* track_api_usage(u, p, e) is called on thread th: sqlite3.connect
TrackBegin(th, u, p, e) ==
    /\ tracks[th].pc = "idle"
    /\ Len(api_usage) + PendingInserts < MaxUsageRows
    /\ tracks' = [ tracks EXCEPT ![th] = [ pc |-> "connected", user_id |-> u,
                                          platform |-> p, endpoint |-> e ] ]
    /\ UNCHANGED <<now, social_tokens, api_usage, gets, tracked, usage_reply, env, call,
                   rank, req, users, user_reply, fetch>>

\* INSERT OR IGNORE: the statement opens the transaction and takes the write
\* lock; it waits while another connection holds the lock
TrackInsert(th) ==
    /\ tracks[th].pc = "connected"
    /\ ~WriteLocked(th)
    /\ api_usage' = InsertOrIgnoreUsage(api_usage, tracks[th].user_id,
                                        tracks[th].platform, tracks[th].endpoint, now)
    /\ tracks' = [ tracks EXCEPT ![th].pc = "inserted" ]
    /\ UNCHANGED <<now, social_tokens, gets, tracked, usage_reply, env, call,
                   rank, req, users, user_reply, fetch>>

\* the wait for the lock outlasts the timeout of the connection:
\* sqlite3.OperationalError, which track_api_usage does not catch
TrackLocked(th) ==
    /\ tracks[th].pc = "connected"
    /\ WriteLocked(th)
    /\ tracks' = [ tracks EXCEPT ![th].pc = "raised" ]
    /\ UNCHANGED <<now, social_tokens, api_usage, gets, tracked, usage_reply, env, call,
                   rank, req, users, user_reply, fetch>>

\* UPDATE ... SET usage_count = usage_count + 1, then conn.commit()
TrackUpdate(th) ==
    /\ tracks[th].pc = "inserted"
    /\ api_usage' = UpdateUsage(api_usage, tracks[th].user_id,
                                tracks[th].platform, tracks[th].endpoint, now)
    /\ tracked' = [ tracked EXCEPT ![<<tracks[th].user_id, tracks[th].platform,
                                      tracks[th].endpoint, DateNow(now)>>] = @ + 1 ]
    /\ tracks' = [ tracks EXCEPT ![th].pc = "done" ]
    /\ UNCHANGED <<now, social_tokens, gets, usage_reply, env, call,
                   rank, req, users, user_reply, fetch>>

\* the call is over
TrackReturn(th) ==
    /\ tracks[th].pc \in {"done", "raised"}
    /\ tracks' = [ tracks EXCEPT ![th] = IdleTrack ]
    /\ UNCHANGED <<now, social_tokens, api_usage, gets, tracked, usage_reply, env, call,
                   rank, req, users, user_reply, fetch>>

\* --------------------------------------------------------------------------
\* Initial state: the tables as init_database creates them
\* --------------------------------------------------------------------------
Init ==
    /\ now = 0
    /\ social_tokens = <<>>
    /\ api_usage = <<>>
    /\ gets = [ th \in Threads |-> IdleGet ]
    /\ tracked = [ k \in Users \X Platforms \X Endpoints \X Days |-> 0 ]
    /\ usage_reply = NoReply
    /\ env = DefaultEnv
    /\ call = IdleCall
    /\ rank = IdleRank
    /\ req = IdleRequest
    /\ users = <<>>
    /\ user_reply = NoUserReply
    /\ fetch = IdleFetch
    /\ tracks = [ th \in Threads |-> IdleTrack ]

\* --------------------------------------------------------------------------
\* Actions
\* --------------------------------------------------------------------------
\* time passes
Tick ==
    /\ now < MaxNow
    /\ now' = now + 1
    /\ UNCHANGED <<social_tokens, api_usage, gets, tracked, usage_reply, env, call, rank, req,
                   users, user_reply, fetch, tracks>>

\* store_social_token(user_id, platform, token_data)
StoreSocialToken(u, p, td) ==
    /\ Len(social_tokens) < MaxTokenRows
    /\ social_tokens' = InsertOrReplaceToken(social_tokens, u, p, td, now)
    /\ UNCHANGED <<now, api_usage, gets, tracked, usage_reply, env, call, rank, req,
                   users, user_reply, fetch, tracks>>

\* get_user_token, the SELECT and fetchone(): `if not result: return None`
GetSelect(th, u, p) ==
    /\ gets[th].pc = "idle"
    /\ IF RowsOf(social_tokens, u, p) = {}
       THEN gets' = [ gets EXCEPT ![th] =
                [ IdleGet EXCEPT !.pc = "done", !.user_id = u, !.platform = p ] ]
       ELSE \E i \in SelectLatest(social_tokens, u, p) :
                gets' = [ gets EXCEPT ![th] =
                    [ IdleGet EXCEPT !.pc = "selected", !.user_id = u,
                                     !.platform = p, !.row = i ] ]
    /\ UNCHANGED <<now, social_tokens, api_usage, tracked, usage_reply, env, call, rank, req,
                   users, user_reply, fetch, tracks>>

\* get_user_token, the expiry test: an expired row starts refresh_token, any
\* other row is returned as the token
GetCheckExpiry(th) ==
    /\ gets[th].pc = "selected"
    /\ LET row == social_tokens[gets[th].row]
       IN  IF IsExpired(row, now)
           THEN gets' = [ gets EXCEPT ![th].pc = "refreshing",
                                      ![th].refreshes = @ + 1 ]
           ELSE gets' = [ gets EXCEPT ![th].pc = "done",
                                      ![th].found = TRUE ]
    /\ UNCHANGED <<now, social_tokens, api_usage, tracked, usage_reply, env, call, rank, req,
                   users, user_reply, fetch, tracks>>

\* refresh_token returns: `if refreshed: return refreshed` else `return None`
GetRefreshReturn(th) ==
    /\ gets[th].pc = "refreshing"
    /\ LET row == social_tokens[gets[th].row]
           refreshed == RefreshToken(gets[th].user_id, gets[th].platform, row.refresh_token)
       IN  /\ gets' = [ gets EXCEPT ![th].pc = "done",
                                    ![th].found = (refreshed /= None) ]
           /\ social_tokens' = RefreshedTable(social_tokens, gets[th].row)
    /\ UNCHANGED <<now, api_usage, tracked, usage_reply, env, call, rank, req,
                   users, user_reply, fetch, tracks>>

\* the caller takes the result; the thread is free for its next call
GetReturn(th) ==
    /\ gets[th].pc = "done"
    /\ gets' = [ gets EXCEPT ![th] = IdleGet ]
    /\ UNCHANGED <<now, social_tokens, api_usage, tracked, usage_reply, env, call, rank, req,
                   users, user_reply, fetch, tracks>>

\* track_api_usage(user_id, platform, endpoint)
TrackApiUsage(u, p, e) ==
    /\ Len(api_usage) < MaxUsageRows
    /\ api_usage' = TrackedTable(api_usage, u, p, e, now)
    /\ tracked' = [ tracked EXCEPT ![<<u, p, e, DateNow(now)>>] = @ + 1 ]
    /\ UNCHANGED <<now, social_tokens, gets, usage_reply, env, call, rank, req,
                   users, user_reply, fetch, tracks>>

QueryUserUsageCounting(u, p, days) ==
    /\ usage_reply' = [ user_id |-> u, platform |-> p, days |-> days, at |-> now,
                        usage |-> GetUserUsage(api_usage, u, p, days, now) ]
    /\ api_usage' = TrackedTable(api_usage, u, p, "search", now)
    /\ UNCHANGED <<now, social_tokens, gets, tracked, env, call, rank, req,
                   users, user_reply, fetch, tracks>>

\* get_user_usage(user_id, platform, days)
QueryUserUsage(u, p, days) ==
    /\ usage_reply' = [ user_id |-> u, platform |-> p, days |-> days, at |-> now,
                        usage |-> GetUserUsage(api_usage, u, p, days, now) ]
    /\ UNCHANGED <<now, social_tokens, api_usage, gets, tracked, env, call, rank, req,
                   users, user_reply, fetch, tracks>>

\* --------------------------------------------------------------------------
\* Specifications
\* --------------------------------------------------------------------------
\* the credential store under concurrent readers
NextCred ==
    \/ Tick
    \/ \E u \in Users, p \in Platforms, td \in TokenPayloads : StoreSocialToken(u, p, td)
    \/ \E th \in Threads, u \in Users, p \in Platforms : GetSelect(th, u, p)
    \/ \E th \in Threads : GetCheckExpiry(th)
    \/ \E th \in Threads : GetRefreshReturn(th)
    \/ \E th \in Threads : GetReturn(th)

SpecCred == Init /\ [][NextCred]_vars

\* the usage tracker
NextUsage ==
    \/ Tick
    \/ \E u \in Users, p \in Platforms, e \in Endpoints : TrackApiUsage(u, p, e)
    \/ \E u \in Users, p \in Platforms, days \in 0..MaxWindow : QueryUserUsage(u, p, days)

SpecUsage == Init /\ [][NextUsage]_vars

\* the scouts, one call at a time, over every deployment and every table one
\* store leaves behind
InitScout ==
    /\ now = 0
    /\ social_tokens \in SeedTables
    /\ api_usage = <<>>
    /\ gets = [ th \in Threads |-> IdleGet ]
    /\ tracked = [ k \in Users \X Platforms \X Endpoints \X Days |-> 0 ]
    /\ usage_reply = NoReply
    /\ env \in Envs
    /\ call = IdleCall
    /\ rank = IdleRank
    /\ req = IdleRequest
    /\ users = <<>>
    /\ user_reply = NoUserReply
    /\ fetch = IdleFetch
    /\ tracks = [ th \in Threads |-> IdleTrack ]

NextScout ==
    \/ Tick
    \/ \E s \in Scouts, u \in Users \cup {None} : ScoutStart(s, u)
    \/ HybridLookup
    \/ HybridTrack
    \/ EnhancedLookup
    \/ EnhancedUserSearch
    \/ EnhancedFallbackLinkedin
    \/ EnhancedFallbackTwitter
    \/ HybridDecide
    \/ SharedTier
    \/ EmailShared
    \/ \E o \in PdlOutcomes : EmailAttempt(o)
    \/ MockTier
    \/ ScoutEnd

SpecScout == InitScout /\ [][NextScout]_vars

\* validate_and_rank on every list of at most MaxProfiles candidates
InitRank ==
    /\ now = 0
    /\ social_tokens = <<>>
    /\ api_usage = <<>>
    /\ gets = [ th \in Threads |-> IdleGet ]
    /\ tracked = [ k \in Users \X Platforms \X Endpoints \X Days |-> 0 ]
    /\ usage_reply = NoReply
    /\ env = DefaultEnv
    /\ call = IdleCall
    /\ rank \in { [input |-> s, output |-> <<>>, done |-> FALSE] : s \in RankInputs }
    /\ req = IdleRequest
    /\ users = <<>>
    /\ user_reply = NoUserReply
    /\ fetch = IdleFetch
    /\ tracks = [ th \in Threads |-> IdleTrack ]

NextRank == ValidateAndRank

SpecRank == InitRank /\ [][NextRank]_vars

\* lead_discovery, one request from its arrival to its answer
NextPipeline ==
    \/ \E r \in Requests : Validate(r)
    \/ InterpretGoal
    \/ ScoutCall
    \/ Aggregate
    \/ GenerateMessage
    \/ Respond

SpecPipeline == Init /\ [][NextPipeline]_vars

NextRetry ==
    \/ \E p \in Providers : FetchStart(p)
    \/ \E o \in HttpOutcomes : FetchAttempt(o)
    \/ FetchEnd

SpecRetry == Init /\ [][NextRetry]_vars

\* the requests that carry user_email and no user_id
EmailRequests == { r \in Requests : r.user_email /= None /\ r.user_id = None }

NextUsers ==
    \/ \E email \in UserEmails : CreateUserEndpoint(email)
    \/ UserReplySent
    \/ \E r \in EmailRequests : user_reply = NoUserReply /\ Validate(r)
    \/ InterpretGoal
    \/ ScoutCall
    \/ Aggregate
    \/ GenerateMessage
    \/ Respond
    \/ RequestEnd

SpecUsers == Init /\ [][NextUsers]_vars

\* the tables one track_api_usage call leaves behind
SeedUsage ==
    { <<>> } \cup { TrackedTable(<<>>, u, p, e, 0) :
                        u \in Users, p \in Platforms, e \in Endpoints }

InitReads ==
    /\ now = 0
    /\ social_tokens \in SeedTables
    /\ api_usage \in SeedUsage
    /\ gets = [ th \in Threads |-> IdleGet ]
    /\ tracked = [ k \in Users \X Platforms \X Endpoints \X Days |->
                     IF api_usage /= <<>> /\ k = UsageKey(api_usage[1]) \o <<0>>
                     THEN 1 ELSE 0 ]
    /\ usage_reply = NoReply
    /\ env = DefaultEnv
    /\ call = IdleCall
    /\ rank = IdleRank
    /\ req = IdleRequest
    /\ users = <<>>
    /\ user_reply = NoUserReply
    /\ fetch = IdleFetch
    /\ tracks = [ th \in Threads |-> IdleTrack ]

\* the read endpoints /api/user/<user_id>/connections and /api/usage/<user_id>
\* over a store that holds a credential and a counter
NextReads ==
    \/ Tick
    \/ \E u \in Users, p \in Platforms : GetSelect(1, u, p)
    \/ GetCheckExpiry(1)
    \/ GetRefreshReturn(1)
    \/ GetReturn(1)
    \/ \E u \in Users, p \in Platforms, days \in 0..MaxWindow : QueryUserUsage(u, p, days)

SpecReads == InitReads /\ [][NextReads]_vars

\* track_api_usage called from several threads within one day
NextTrack ==
    \/ \E th \in Threads, u \in Users, p \in Platforms, e \in Endpoints :
          TrackBegin(th, u, p, e)
    \/ \E th \in Threads : TrackInsert(th)
    \/ \E th \in Threads : TrackLocked(th)
    \/ \E th \in Threads : TrackUpdate(th)
    \/ \E th \in Threads : TrackReturn(th)

SpecTrack == Init /\ [][NextTrack]_vars

\* one discovery request with the loops of its scout calls: every step but
\* the arrival of the request is a step of the handler's thread, which runs
\* as long as each outbound attempt returns or times out
HandlerStep ==
    \/ InterpretGoal
    \/ ScoutCallBegin
    \/ \E o \in HttpOutcomes : RetryPass(o)
    \/ \E o \in PollOutcomes : PollAttempt(o)
    \/ ScoutCallEnd
    \/ Aggregate
    \/ GenerateMessage
    \/ Respond

\* requests without a user and without a target of their own, for at most
\* one e-mail
EndsRequests ==
    { r \in Requests : /\ r.user_id = None /\ r.user_email = None
                       /\ r.target_kind /= "int" /\ Len(r.emails) <= 1 }

NextEnds ==
    \/ \E r \in EndsRequests : Validate(r)
    \/ HandlerStep

SpecEnds == Init /\ [][NextEnds]_vars /\ WF_vars(HandlerStep)

\* --------------------------------------------------------------------------
\* Properties of the credential store
\* --------------------------------------------------------------------------
GetRow(th) == social_tokens[gets[th].row]

\* the step of thread th in which get_user_token returns a token
ReturnsToken(th) == gets[th].pc = "selected" /\ gets'[th].pc = "done" /\ gets'[th].found

\* C4: get_user_token returns a credential only if its expires_at is absent or
\* strictly later than the time of the call; a credential whose expires_at is
\* at or before the current time is never returned.
C4_ReturnedOnlyIfInFuture ==
    [][ \A th \in Threads :
          ReturnsToken(th) =>
              \/ GetRow(th).expires_at = NoExpiry
              \/ GetRow(th).expires_at > now ]_vars

\* a thread has been handed a credential that expires at this very instant
C4_ReturnedAtExpiryInstant ==
    \E th \in Threads : /\ gets[th].pc = "done" /\ gets[th].found
                        /\ GetRow(th).expires_at = now

\* C5: a get on an expired credential whose refresh fails makes exactly one
\* refresh attempt, returns no credential and leaves the stored rows as they
\* were; this holds of every get call, so a later get tries the refresh again.
C5_ExpiredGetRefreshesOnceKeepsRow ==
    [][ \A th \in Threads :
          /\ (gets[th].pc = "selected" /\ gets'[th] /= gets[th] /\ IsExpired(GetRow(th), now))
               => /\ gets'[th].pc = "refreshing"
                  /\ gets'[th].refreshes = 1
                  /\ social_tokens' = social_tokens
          /\ (gets[th].pc = "refreshing" /\ gets'[th] /= gets[th])
               => /\ gets'[th].pc = "done"
                  /\ ~gets'[th].found
                  /\ gets'[th].refreshes = 1
                  /\ social_tokens' = social_tokens
          /\ (gets[th].pc = "done" /\ gets[th].refreshes = 1)
               => /\ ~gets[th].found
                  /\ gets[th].row \in RowsOf(social_tokens, gets[th].user_id, gets[th].platform) ]_vars

\* a get on an expired credential has come back empty-handed after its one
\* refresh attempt, the row is still stored and still expired
C5_ExpiredGetCameBackEmpty ==
    \E th \in Threads : /\ gets[th].pc = "done" /\ ~gets[th].found
                        /\ gets[th].refreshes = 1
                        /\ gets[th].row \in 1..Len(social_tokens)
                        /\ IsExpired(GetRow(th), now)

\* C6: at most one refresh per (user, platform) key is in flight at any time
C6_SingleFlightRefresh ==
    \A t1, t2 \in Threads :
        ( /\ gets[t1].pc = "refreshing" /\ gets[t2].pc = "refreshing"
          /\ gets[t1].user_id = gets[t2].user_id
          /\ gets[t1].platform = gets[t2].platform ) => t1 = t2

\* C7: the credential table holds at most one row per (user, platform)
C7_OneRowPerKey ==
    \A u \in Users, p \in Platforms : Cardinality(RowsOf(social_tokens, u, p)) <= 1

\* the row of the latest store on key (u, p)
LastStored(u, p) == CHOOSE i \in RowsOf(social_tokens, u, p) :
                        \A j \in RowsOf(social_tokens, u, p) : j <= i

\* C8: once B was stored after A on the same key and B is unexpired, the row a
\* get reads for that key is B's, never A's, also when both were stored within
\* the same clock second.
C8_ReadsLatestStore ==
    [][ \A th \in Threads :
          ( /\ gets[th].pc = "idle" /\ gets'[th].pc = "selected"
            /\ ~IsExpired(social_tokens[LastStored(gets'[th].user_id, gets'[th].platform)], now) )
          => gets'[th].row = LastStored(gets'[th].user_id, gets'[th].platform) ]_vars

\* --------------------------------------------------------------------------
\* Properties of the usage tracker
\* --------------------------------------------------------------------------
Today == DateNow(now)

\* every track call on the key was made today
FreshToday(u, p, e) == \A d \in Days : d /= Today => tracked[<<u, p, e, d>>] = 0

\* C9: after n track calls on a fresh key within one day, usage(u, p, 1)
\* reports exactly n for the endpoint.
C9_UsageCountsTrackCalls ==
    \A u \in Users, p \in Platforms, e \in Endpoints :
        (FreshToday(u, p, e) /\ tracked[<<u, p, e, Today>>] > 0)
        => /\ e \in DOMAIN GetUserUsage(api_usage, u, p, 1, now)
           /\ GetUserUsage(api_usage, u, p, 1, now)[e] = tracked[<<u, p, e, Today>>]

\* the rows of the key dated within the `days` most recent days, today included
TrailingRows(u, p, e, days) ==
    { i \in 1..Len(api_usage) : /\ UsageKey(api_usage[i]) = <<u, p, e>>
                                /\ api_usage[i].date > Today - days
                                /\ api_usage[i].date <= Today }

\* C10: usage(u, p, days) reports, per endpoint, the sum of the counters of
\* exactly the `days` most recent days including today, and nothing older.
C10_UsageWindowIsTrailingDays ==
    \A u \in Users, p \in Platforms, days \in 1..MaxWindow, e \in Endpoints :
        LET reply == GetUserUsage(api_usage, u, p, days, now)
        IN  /\ e \in DOMAIN reply <=> TrailingRows(u, p, e, days) /= {}
            /\ e \in DOMAIN reply => reply[e] = SumCounts(api_usage, TrailingRows(u, p, e, days))

\* --------------------------------------------------------------------------
\* Properties of the scouts
\* --------------------------------------------------------------------------
\* C1: a scout search call never raises: whatever the credential lookup, the
\* usage tracking and the provider calls come to, it ends by returning a list.
C1_ScoutNeverRaises == call.status /= "raised"

Logged(ev) == \E i \in 1..Len(call.log) : call.log[i] = ev

\* C2: when the AuthenticatedUser tier of a hybrid scout hands back a profile
\* with its own provenance tag, the call returns those profiles and neither the
\* shared provider nor an offline stand-in was invoked during the call.
C2_TierShortCircuit ==
    ( /\ call.status = "returned"
      /\ call.scout \in HybridScouts
      /\ call.tier = "user" )
    => /\ HasTag(call.result, OAuthTag(call.scout))
       /\ ~Logged("shared_api")
       /\ ~Logged("mock")

\* C3: a scout search call never returns an empty list: a shared tier without
\* profiles falls through to the offline stand-in.
C3_ScoutNeverReturnsEmpty == call.status = "returned" => call.result /= <<>>

\* --------------------------------------------------------------------------
\* Properties of the request pipeline
\* --------------------------------------------------------------------------
ScoutsCalled(r) == SelectSeq(r.calls, LAMBDA c : c \in Scouts)

StagesCalled(r, stages) == SelectSeq(r.calls, LAMBDA c : c \in stages) /= <<>>

FanOutDone(r) ==
    r.interpreted \in {"gemini", "fallback"} /\ r.pc \in {"messages", "done"}

\* C11: a request that fails validation ends with a client error (a 4xx
\* status), and interpret_goal, the scouts and generate_message are not called
\* for it.
C11_RejectedRequestIsClientError ==
    (req.pc = "done" /\ ~Accepted(req.input)) =>
        /\ req.response.status \in 400..499
        /\ ~StagesCalled(req, Scouts \cup {"interpret_goal", "generate_message"})

\* C12: when goal interpretation fails (Gemini gives no usable plan, or
\* interpret_goal raises) the request ends with an error response, and no
\* scout, no validate_and_rank and no generate_message is called afterwards.
C12_FailedInterpretationIsTerminal ==
    req.interpreted \in {"fallback", "raised"} =>
        /\ ~StagesCalled(req, Scouts \cup {"validate_and_rank", "generate_message"})
        /\ req.pc = "done" => req.response.status >= 400

\* C13: in the fan-out every planned call is attempted whatever the earlier
\* ones did; a call that raises adds exactly one entry to errors, naming its
\* scout and its query or email, and nothing to profiles; a call that returns
\* adds its result to profiles and nothing to errors; and the request is
\* answered with success, its warnings being the list errors.
C13_FanOutIsolatesFailures ==
    /\ [][ (req.pc = "fanout" /\ req'.next /= req.next) =>
             LET c == req.planned[req.next] IN
             /\ req'.pc = "fanout"
             /\ req'.next = req.next + 1
             /\ req'.calls = Append(req.calls, c.scout)
             /\ \/ /\ Len(req'.errors) = Len(req.errors) + 1
                   /\ SubSeq(req'.errors, 1, Len(req.errors)) = req.errors
                   /\ req'.errors[Len(req'.errors)].stage = c.scout
                   /\ req'.errors[Len(req'.errors)].subject = c.arg
                   /\ req'.profiles = req.profiles
                \/ /\ req'.errors = req.errors
                   /\ \E result \in ScoutResults(c.scout) :
                        req'.profiles = req.profiles \o result ]_vars
    /\ [] ( FanOutDone(req) =>
              /\ req.next = Len(req.planned) + 1
              /\ ScoutsCalled(req) = [ i \in 1..Len(req.planned) |-> req.planned[i].scout ]
              /\ req.pc = "done" =>
                    /\ req.response.status = 200
                    /\ req.response.warnings \o req.response.errors = req.errors )

\* C14: when the fan-out collects no profile the request is answered with
\* success, an empty list of profiles and every entry of errors, and neither
\* validate_and_rank nor generate_message is called.
C14_NothingCollectedIsSuccess ==
    (req.pc = "done" /\ FanOutDone(req) /\ req.profiles = <<>>) =>
        /\ req.response.status = 200
        /\ "profiles" \in req.response.keys
        /\ req.response.profiles = <<>>
        /\ "errors" \in req.response.keys
        /\ req.response.errors = req.errors
        /\ ~StagesCalled(req, {"validate_and_rank", "generate_message"})

\* a request answered after a fan-out that collected nothing and had a call
\* that raised
C14_AnsweredEmptyWithWarning ==
    /\ req.pc = "done"
    /\ FanOutDone(req)
    /\ req.profiles = <<>>
    /\ req.errors /= <<>>
    /\ Len(req.planned) >= 2

\* C18: total_found of a result is the number of profiles of the
\* deduplicated, ranked list before it is cut to the target, whatever was
\* collected, duplicates included.
C18_TotalFoundCountsUniqueProfiles ==
    (req.pc = "done" /\ "total_found" \in req.response.keys) =>
        req.response.total_found = Len(validate_and_rank(req.profiles))

Min(a, b) == IF a < b THEN a ELSE b

\* C19: in every successful result with profiles, returned is the number of
\* profiles answered and is the smaller of the target and the number of
\* unique profiles, and the profiles answered are the first entries of the
\* ranked unique list.
C19_ReturnedIsTruncatedRanking ==
    (req.pc = "done" /\ "returned" \in req.response.keys) =>
        LET ranked == validate_and_rank(req.profiles) IN
        /\ req.response.returned = Len(req.response.profiles)
        /\ req.response.returned = Min(TargetOf(req.input), Len(ranked))
        /\ req.response.profiles = SubSeq(ranked, 1, req.response.returned)

\* a result cut to a target smaller than the number of unique profiles
C19_ResultCutToTarget ==
    /\ req.pc = "done"
    /\ "returned" \in req.response.keys
    /\ req.response.returned = TargetOf(req.input)
    /\ Len(validate_and_rank(req.profiles)) > TargetOf(req.input)

\* C20: when message generation fails for a returned profile (Gemini gives
\* generate_message no usable text, or generate_message itself raises), that
\* profile gets a templated message, errors gains an entry for it, the request
\* is still answered with success, and every other profile keeps the message
\* Gemini wrote for it.
C20_FailedMessageIsTemplatedAndWarned ==
    (req.pc = "done" /\ "returned" \in req.response.keys) =>
        /\ req.response.status = 200
        /\ \A i \in 1..Len(req.response.profiles) :
             IF req.generated[i] \in {"fallback", "raised"}
             THEN /\ req.response.messages[i] \in {"fallback message", "handler template"}
                  /\ \E j \in 1..Len(req.response.warnings) :
                       /\ req.response.warnings[j].stage = "generate_message"
                       /\ req.response.warnings[j].subject = req.response.profiles[i].name
             ELSE req.response.messages[i] = "gemini text"

\* --------------------------------------------------------------------------
\* Properties of the aggregator
\* --------------------------------------------------------------------------
\* a full name in lower case with its runs of whitespace collapsed
NormalizedName(name) ==
    CASE name = "Ann Lee" -> "ann lee"
      [] name = "ann  lee" -> "ann lee"
      [] name = "Bo Ray" -> "bo ray"

\* the identity key of a profile: its profile URL when it has one, else its
\* normalized full name
IdentityKey(p) == IF p.linkedin /= "" THEN p.linkedin ELSE NormalizedName(p.name)

\* C15: no two profiles of the list validate_and_rank returns have the same
\* identity key.
C15_NoTwoProfilesShareIdentity ==
    rank.done =>
        \A i, j \in 1..Len(rank.output) :
            i < j => IdentityKey(rank.output[i]) /= IdentityKey(rank.output[j])

FirstWithIdentity(profiles, key) ==
    CHOOSE i \in 1..Len(profiles) :
        /\ IdentityKey(profiles[i]) = key
        /\ \A j \in 1..(i - 1) : IdentityKey(profiles[j]) /= key

SameFields(kept, p) ==
    /\ kept.name = p.name
    /\ kept.linkedin = p.linkedin
    /\ kept.confidence = p.confidence
    /\ kept.source = p.source

\* C16: validate_and_rank keeps exactly one profile per identity, the first
\* one of the input with that identity, with the fields that one came with.
C16_FirstOccurrenceKeptUnmerged ==
    rank.done =>
        \A i \in 1..Len(rank.input) :
            LET key == IdentityKey(rank.input[i])
                kept == { k \in 1..Len(rank.output) : IdentityKey(rank.output[k]) = key }
            IN
            /\ Cardinality(kept) = 1
            /\ \A k \in kept :
                 SameFields(rank.output[k],
                            rank.input[FirstWithIdentity(rank.input, key)])

\* C17: validate_and_rank returns the kept profiles in non-increasing order of
\* the confidence they came with, and profiles of equal confidence in the
\* order they came in.
C17_RankedByConfidenceStable ==
    rank.done =>
        LET kept == DedupByName(rank.input, {}, <<>>)
            place(p) == CHOOSE k \in 1..Len(kept) : kept[k] = p
        IN
        \A i, j \in 1..Len(rank.output) :
            i < j =>
              /\ rank.output[i].confidence >= rank.output[j].confidence
              /\ rank.output[i].confidence = rank.output[j].confidence =>
                    place(rank.output[i]) < place(rank.output[j])

\* the profile is in the list with the fields it came with
Kept(profiles, p) == \E k \in 1..Len(profiles) : SameFields(profiles[k], p)

\* C32: validate_and_rank drops a profile only when an earlier profile of the
\* input has the same identity key: a profile whose key no earlier profile
\* has is kept, two profiles of one name with different profile URLs included.
C32_DroppedOnlyForSameIdentity ==
    rank.done =>
        \A i \in 1..Len(rank.input) :
            (\A j \in 1..(i - 1) :
                IdentityKey(rank.input[j]) /= IdentityKey(rank.input[i]))
            => Kept(rank.output, rank.input[i])

\* --------------------------------------------------------------------------
\* Properties of the resilient provider calls
\* --------------------------------------------------------------------------
\* the loop has used every pass without a usable answer: the last pass ended
\* on a signal the loop retries
BudgetSpent ==
    /\ Len(fetch.outcomes) >= MAX_RETRIES
    /\ fetch.outcomes[Len(fetch.outcomes)] \in {"429", "timeout", "200_empty"}

\* C21: a resilient provider call (PDL, Google, Twitter user search) makes at
\* most MAX_RETRIES outbound attempts, and when the budget is exhausted it has
\* returned an empty list; it never raises.
C21_AttemptBudget ==
    /\ Len(fetch.outcomes) <= MAX_RETRIES
    /\ fetch.status \in {"idle", "running", "returned"}
    /\ BudgetSpent => fetch.status = "returned" /\ fetch.result = "empty"

\* three rate-limit answers in a row have used the budget up
C21_BudgetExhausted ==
    /\ fetch.status = "returned"
    /\ fetch.result = "empty"
    /\ fetch.outcomes = <<"429", "429", "429">>

\* C28: a 429 answer makes the call wait 2^attempt seconds (1, 2, 4, ...) and
\* try again while attempts remain, for PDL, Google and Twitter alike; the
\* signal is never raised.
C28_RateLimitBacksOffAndRetries ==
    /\ fetch.status /= "raised"
    /\ \A i \in 1..Len(fetch.outcomes) :
         fetch.outcomes[i] = "429" /\ i < MAX_RETRIES =>
            /\ fetch.sleeps[i] = Pow2(i - 1)
            /\ Len(fetch.outcomes) > i \/ fetch.status = "running"

\* C29: a 401 or 403 answer ends the call at once: it is the last attempt of
\* the call, and the call has returned an empty result.
C29_AuthFailureEndsCall ==
    \A i \in 1..Len(fetch.outcomes) :
       fetch.outcomes[i] \in {"401", "403"} =>
          /\ i = Len(fetch.outcomes)
          /\ fetch.status = "returned"
          /\ fetch.result = "empty"

\* a 403 on the second attempt, after a retried timeout
C29_ForbiddenAfterRetry ==
    /\ Len(fetch.outcomes) = 2
    /\ fetch.outcomes[1] = "timeout"
    /\ fetch.outcomes[2] = "403"
    /\ fetch.status = "returned"

\* --------------------------------------------------------------------------
\* Properties of the users table
\* --------------------------------------------------------------------------
IdsOf(tbl, email) == { tbl[i].user_id : i \in EmailRows(tbl, email) }

\* the step in which lead_discovery called create_user(email)
CreatedByRequest(email) ==
    /\ req.pc = "idle" /\ req'.pc /= "idle"
    /\ req'.calls = <<"create_user">>
    /\ req'.input.user_email = email

\* the step in which /api/user/create called create_user(email)
CreatedByEndpoint(email) ==
    /\ user_reply = NoUserReply
    /\ user_reply'.status = 200
    /\ user_reply'.email = email

\* the call answered id: the email has one row, with that id, and it is the
\* id the email had if it had a row before
AnsweredTheUserOf(email, id) ==
    /\ Cardinality(EmailRows(users', email)) = 1
    /\ IdsOf(users', email) = {id}
    /\ IdsOf(users, email) /= {} => IdsOf(users, email) = {id}

\* C22: a discovery request with user_email and no user_id, and a create_user
\* call, are answered with the user id of that email, the same id on every
\* repetition, and the table never holds two rows of one email.
C22_CreateUserIdempotentPerEmail ==
    /\ [][ \A email \in UserEmails :
             /\ CreatedByRequest(email) => AnsweredTheUserOf(email, req'.user_id)
             /\ CreatedByEndpoint(email) =>
                   AnsweredTheUserOf(email, user_reply'.user_id) ]_vars
    /\ [](\A email \in UserEmails : Cardinality(EmailRows(users, email)) <= 1)
    /\ [](req.pc = "done" /\ req.response.status = 200 /\ req.calls /= <<>>
            /\ req.calls[1] = "create_user"
          => IdsOf(users, req.input.user_email) = {req.response.user_id})

\* the endpoint and a discovery request have both created the user of one
\* email and were given one id
C22_SameIdOnRepeat ==
    /\ Len(users) = 1
    /\ user_reply.status = 200
    /\ req.pc = "done" /\ req.calls /= <<>> /\ req.calls[1] = "create_user"
    /\ req.input.user_email = user_reply.email
    /\ req.response.status = 200
    /\ req.response.user_id = user_reply.user_id

\* --------------------------------------------------------------------------
\* Properties of the read endpoints
\* --------------------------------------------------------------------------
\* a step of get_user_token or of get_user_usage
QueryStep == gets' /= gets \/ usage_reply' /= usage_reply

\* C23: the connection-status query and the usage query are pure reads: no
\* step of either changes the stored credentials or the usage counters, an
\* expired credential in the store included.
C23_QueriesArePureReads ==
    [][ QueryStep => social_tokens' = social_tokens /\ api_usage' = api_usage ]_vars

\* the status query has met an expired credential and answered that none is
\* usable, and the usage query has answered a counter; both rows are there
C23_ExpiredCredentialQueried ==
    /\ gets[1].pc = "done" /\ gets[1].refreshes = 1 /\ ~gets[1].found
    /\ IsExpired(social_tokens[gets[1].row], now)
    /\ usage_reply.usage /= <<>>
    /\ api_usage /= <<>>

\* --------------------------------------------------------------------------
\* Properties of the scout tiers
\* --------------------------------------------------------------------------
\* the events a step adds to the log of the call
LogAdded == SubSeq(call'.log, Len(call.log) + 1, Len(call'.log))

Adds(events) == \E i \in 1..Len(LogAdded) : LogAdded[i] \in events

\* a hybrid scout is called without user_id, or its get_user_token returns None
SkipsUserTier ==
    \/ /\ call.status = "idle" /\ call'.status = "running"
       /\ call'.scout \in HybridScouts
       /\ call'.user_id = None
    \/ /\ Running("lookup") /\ call' /= call /\ call'.status /= "raised"
       /\ GetUserTokenResults(social_tokens, call.user_id,
                              PlatformOf(call.scout), now) = { NoToken }

InSharedChain == call.status = "running" /\ call.pc \in {"shared", "attempt", "mock"}

\* C24: in a hybrid scout without user_id, or whose get_user_token returns
\* None, the AuthenticatedUser tier is skipped without error: the call goes on
\* at the shared tier, and from there to its end it tracks no usage and makes
\* no call with a user's token.
C24_UserTierSkipped ==
    [][ /\ SkipsUserTier =>
             /\ call'.status = "running" /\ call'.pc = "shared"
             /\ api_usage' = api_usage /\ tracked' = tracked
             /\ ~Adds({"track_api_usage", "user_api"})
        /\ InSharedChain =>
             /\ call'.status \in {"running", "returned"}
             /\ call'.status = "running" => call'.pc \in {"shared", "attempt", "mock"}
             /\ api_usage' = api_usage /\ tracked' = tracked
             /\ ~Adds({"get_user_token", "track_api_usage", "user_api"}) ]_vars

\* the user has a credential that is no longer usable, and the call is at the
\* shared tier after the one lookup
C24_UnusableCredentialSkipped ==
    /\ Running("shared")
    /\ call.scout \in HybridScouts
    /\ call.log = <<"get_user_token">>
    /\ RowsOf(social_tokens, call.user_id, PlatformOf(call.scout)) /= {}
    /\ GetUserTokenResults(social_tokens, call.user_id,
                           PlatformOf(call.scout), now) = { NoToken }

CountOf(ev) == Cardinality({ i \in 1..Len(call.log) : call.log[i] = ev })

\* C25: within one call of a hybrid scout the tiers run in the order
\* AuthenticatedUser, SharedService, OfflineFallback and the backend of each is
\* invoked at most once: the user's API once, the shared provider once, and
\* nothing with a user's token after the shared provider was queried.
C25_EachTierOnceInOrder ==
    call.scout \in HybridScouts =>
       /\ CountOf("user_api") <= 1
       /\ CountOf("shared_api") <= 1
       /\ \A i, j \in 1..Len(call.log) :
             call.log[i] = "shared_api" /\ call.log[j] = "user_api" => j < i

\* C26: in a hybrid scout every call with the user's token comes after a
\* track_api_usage of the same scout call, made for the requesting user and
\* the scout's platform.
C26_TrackBeforeUserCall ==
    \A j \in 1..Len(call.log) :
       call.log[j] = "user_api" =>
          /\ \E i \in 1..(j - 1) : call.log[i] = "track_api_usage"
          /\ \E d \in Days :
                tracked[<<call.user_id, PlatformOf(call.scout), "search", d>>] >= 1
          /\ \E k \in 1..Len(api_usage) :
                /\ api_usage[k].user_id = call.user_id
                /\ api_usage[k].platform = PlatformOf(call.scout)

\* a hybrid scout has called the provider with the user's token
C26_UserCallMade ==
    /\ call.scout \in HybridScouts
    /\ call.status = "returned" /\ call.tier = "user"
    /\ Logged("user_api")

\* C30: the always-shared scouts (email, internet) never read the credential
\* store and never write the usage tracker, with or without a user_id; the
\* hybrid scouts are the only ones whose calls do.
C30_SharedScoutsLeaveStoresAlone ==
    /\ [][ call'.scout \in Scouts \ HybridScouts =>
              /\ api_usage' = api_usage /\ tracked' = tracked
              /\ social_tokens' = social_tokens ]_vars
    /\ [](call.scout \in Scouts \ HybridScouts =>
             ~Logged("get_user_token") /\ ~Logged("track_api_usage"))
    /\ [](Logged("get_user_token") \/ Logged("track_api_usage") =>
             call.scout \in HybridScouts)

\* an always-shared scout was called with the id of a user who has a
\* credential, and has returned
C30_SharedScoutCalledWithUser ==
    /\ call.scout \in Scouts \ HybridScouts
    /\ call.user_id \in Users
    /\ call.status = "returned"
    /\ social_tokens /= <<>>
    /\ api_usage /= <<>>

\* --------------------------------------------------------------------------
\* Properties of concurrent tracking
\* --------------------------------------------------------------------------
NoTrackRunning == \A th \in Threads : tracks[th].pc \in {"idle", "done", "raised"}

\* usage(u, p, 1)[e], 0 when the endpoint has no entry
UsageToday(u, p, e) ==
    LET reply == GetUserUsage(api_usage, u, p, 1, now)
    IN  IF e \in DOMAIN reply THEN reply[e] ELSE 0

\* C27: whatever the interleaving of the track calls of several threads on one
\* key and day, once none is running the counter usage(u, p, 1)[e] has grown
\* by exactly the number of calls that completed.
C27_NoLostUpdate ==
    NoTrackRunning =>
       \A u \in Users, p \in Platforms, e \in Endpoints :
          UsageToday(u, p, e) = tracked[<<u, p, e, DateNow(now)>>]

\* --------------------------------------------------------------------------
\* Properties of the later stages of the pipeline
\* --------------------------------------------------------------------------
\* C31: a request that passed validation and whose goal Gemini interpreted
\* always ends with a success response: a failure of the fan-out, of
\* validate_and_rank or of message generation is at most a warning.
C31_LaterFailuresAreWarnings ==
    (req.pc = "done" /\ Accepted(req.input) /\ req.interpreted = "gemini") =>
        req.response.status = 200

\* ---------------------------------------------------------------------------
\* Properties of the AuthenticatedUser tier's bookkeeping
\* ---------------------------------------------------------------------------

\* C33: every usage increment made while serving a scout call for user u is
\* recorded under u: no row of api_usage carries an absent (NULL) user id.
C33_UsageRecordedUnderUser ==
    \A k \in 1..Len(api_usage) : api_usage[k].user_id \in Users

\* the last provider call of the scout call so far: "user_api", "shared_api",
\* or None when no provider was called
LastProviderCall ==
    LET at == { i \in 1..Len(call.log) : call.log[i] \in {"user_api", "shared_api"} }
    IN  IF at = {} THEN None ELSE call.log[CHOOSE i \in at : \A j \in at : j <= i]

\* C34: the profiles a hybrid scout hands back with the AuthenticatedUser tag
\* ('twitter_oauth' / 'linkedin_oauth') came from a provider call made with
\* the user's own credential, never from one made with the shared token.
C34_OAuthTagMeansUserCredential ==
    ( /\ call.status = "returned"
      /\ call.scout \in HybridScouts
      /\ HasTag(call.result, OAuthTag(call.scout)) )
    => LastProviderCall = "user_api"

\* ---------------------------------------------------------------------------
\* Properties of rejected requests
\* ---------------------------------------------------------------------------

\* C35: a discovery request rejected by validation changes nothing that
\* persists: the step that answers it with a client error leaves the users,
\* the credentials and the usage counters as they were.
C35_RejectedRequestWritesNothing ==
    [][ (req.pc = "idle" /\ req'.pc = "done" /\ req'.response.status = 400)
        => /\ users' = users
           /\ social_tokens' = social_tokens
           /\ api_usage' = api_usage ]_vars

\* ---------------------------------------------------------------------------
\* Properties of the credential the AuthenticatedUser tier calls with
\* ---------------------------------------------------------------------------

\* C36: the AuthenticatedUser tier calls the provider only with a credential
\* that carries an access token: a credential stored without one (the manual
\* profile connection) never causes an authenticated provider call.
C36_UserCallNeedsAccessToken ==
    Logged("user_api") => call.user_token.access_token /= None

\* ---------------------------------------------------------------------------
\* Properties of what a resilient provider call repeats
\* ---------------------------------------------------------------------------

\* C37: within a resilient provider call only a rate-limit answer or a timeout
\* is followed by another attempt: every answer before the last one of the
\* call is a 429 or a timeout, so a 200, with data or without, ends the call.
C37_RepeatedOnlyAfter429OrTimeout ==
    \A i \in 1..Len(fetch.outcomes) :
       (i < Len(fetch.outcomes) \/ fetch.status = "running")
       => fetch.outcomes[i] \in {"429", "timeout"}

\* ---------------------------------------------------------------------------
\* Properties of the order of a result
\* ---------------------------------------------------------------------------

\* the place of a provider's profiles in the fan-out: e-mails, LinkedIn
\* queries, X queries, internet queries
SourceRank(source) ==
    CASE source = "people_data_labs" -> 1
      [] source = "phantombuster_linkedin" -> 2
      [] source = "twitter_api" -> 3
      [] source = "google_search" -> 4
      [] OTHER -> 0

RECURSIVE FirstByName(_, _)
\* the profiles among the first k that no earlier profile shares a name with,
\* in the order of the list
FirstByName(profiles, k) ==
    IF k = 0
    THEN <<>>
    ELSE IF \E j \in 1..(k - 1) : profiles[j].name = profiles[k].name
         THEN FirstByName(profiles, k - 1)
         ELSE Append(FirstByName(profiles, k - 1), profiles[k])

\* C38: the profiles of a result are in first-occurrence order of the
\* concatenation (e-mail results, then LinkedIn, X and internet results, in
\* plan order): every kept profile has the score 1.0, so ranking reorders
\* nothing.
C38_ResultInFirstOccurrenceOrder ==
    (req.pc = "done" /\ "returned" \in req.response.keys) =>
        LET firsts == FirstByName(req.profiles, Len(req.profiles))
            result == req.response.profiles
        IN
        /\ \A i, j \in 1..Len(req.profiles) :
             i < j => SourceRank(req.profiles[i].source)
                        <= SourceRank(req.profiles[j].source)
        /\ Len(result) = Min(TargetOf(req.input), Len(firsts))
        /\ \A k \in 1..Len(result) :
             /\ result[k].name = firsts[k].name
             /\ result[k].source = firsts[k].source
             /\ result[k].score = PlaceholderScore

\* a result of two profiles, ranked and returned in the order they were found
C38_TwoProfilesRanked ==
    /\ req.pc = "done"
    /\ "returned" \in req.response.keys
    /\ Len(req.response.profiles) = 2
    /\ req.response.profiles[1].name /= req.response.profiles[2].name

\* ---------------------------------------------------------------------------
\* Properties of message generation
\* ---------------------------------------------------------------------------
CallsOf(r, stage) == { i \in 1..Len(r.calls) : r.calls[i] = stage }

\* C39: generate_message is called once for each profile that is returned and
\* for no other, and only after dedup, ranking and truncation; every profile
\* of a successful result with profiles carries a message.
C39_OneMessagePerReturnedProfile ==
    /\ Cardinality(CallsOf(req, "generate_message")) = Len(req.messages)
    /\ Len(req.messages) <= Len(req.unique_profiles)
    /\ \A g \in CallsOf(req, "generate_message") :
         /\ \E v \in CallsOf(req, "validate_and_rank") : v < g
         /\ Len(req.unique_profiles) <= TargetOf(req.input)
         /\ \A i, j \in 1..Len(req.unique_profiles) :
              i < j => req.unique_profiles[i].name /= req.unique_profiles[j].name
    /\ (req.pc = "done" /\ "returned" \in req.response.keys) =>
         /\ Cardinality(CallsOf(req, "generate_message")) = Len(req.response.profiles)
         /\ Len(req.response.messages) = Len(req.response.profiles)
         /\ \A k \in 1..Len(req.response.messages) :
              req.response.messages[k] \in { MessageText(o) : o \in MessageOutcomes }

\* a result cut to the target after a duplicate was dropped or a profile cut
\* off, every returned profile with its message
C39_MessagesForReturnedOnly ==
    /\ req.pc = "done"
    /\ "returned" \in req.response.keys
    /\ Len(req.profiles) > Len(req.response.profiles)
    /\ Len(req.response.messages) = Len(req.response.profiles)
    /\ Len(req.response.profiles) >= 1

\* ---------------------------------------------------------------------------
\* Properties of termination
\* ---------------------------------------------------------------------------
\* the most polls one wait can make: one per PollSleep seconds of the wait
MaxPolls == (MaxWaitTime + PollSleep - 1) \div PollSleep

\* C40: every discovery request ends with a response, provided each outbound
\* attempt returns or times out: a retry loop makes at most MAX_RETRIES
\* attempts and the polling loop at most MaxPolls polls, whatever the provider
\* keeps answering.
C40_RequestEnds ==
    /\ (req.pc /= "idle") ~> (req.pc = "done")
    /\ [](fetch.attempt <= (IF fetch.provider = "phantombuster"
                            THEN MaxPolls ELSE MAX_RETRIES - 1))

\* the provider answered 'running' until the wait was used up
C40_PollingGaveUp ==
    /\ req.pc = "scouting"
    /\ fetch.provider = "phantombuster"
    /\ fetch.status = "returned"
    /\ fetch.result = "empty"
    /\ fetch.attempt = MaxPolls
    /\ ~WithinWait(fetch.elapsed)

====
